---- MODULE Spec2Model ----
(***************************************************************************)
(* Model of the Hono-Openapi core: the reference store                    *)
(* (addParameterToSchema / addBodyTypeToSchema), route registration       *)
(* (addOrAugmentOpenApiRoute) and the response sampler                    *)
(* (snoopOnResponseHandler) working on the OpenAPI document.              *)
(*                                                                         *)
(* JavaScript values are modelled as tagged records [t, v]:               *)
(*   "s" string, "n" number, "b" boolean, "z" null, "u" undefined,        *)
(*   "o" object (v is a function from own keys to values),                *)
(*   "a" array  (v is a sequence of values).                              *)
(* Symbol-keyed properties of typebox schemas ([Kind], [Optional]) are    *)
(* kept under the keys "[Kind]" and "[Optional]"; Object.keys and         *)
(* JSON.stringify do not see them.                                        *)
(***************************************************************************)
EXTENDS Integers, Sequences, FiniteSets, Bags, TLC

VARIABLES parameters, schemas, paths, open_api_ref, routes, inflight, opts,
          calls, firstRef, sampled, updated, raced, last, regs, obs,
          openApiOptions, subApp

vars == <<parameters, schemas, paths, open_api_ref, routes, inflight, opts,
          calls, firstRef, sampled, updated, raced, last, regs, obs,
          openApiOptions, subApp>>

-----------------------------------------------------------------------------
(* Bounds of the model *)

MaxRegs == 3
MaxObs == 3
MaxSteps == 3
MaxInflight == 2
MaxSubAppRoutes == 1
MaxRequests == 1
MaxApplied == 2
MaxProbingRegs == 2

-----------------------------------------------------------------------------
(* JavaScript values *)

\* The tag t is the first field: TLC compares records field by field in
\* the order the field names first occur in the module, so two values of
\* different tags differ at t and their v are never compared.
JS(x) == [t |-> "s", v |-> x]
JN(x) == [t |-> "n", v |-> x]
JB(x) == [t |-> "b", v |-> x]
JNull == [t |-> "z", v |-> 0]
JUndef == [t |-> "u", v |-> 0]
JO(f) == [t |-> "o", v |-> f]
JA(q) == [t |-> "a", v |-> q]
JErr == [t |-> "err", v |-> 0]
EmptyObj == JO(<<>>)

\* a === b for values of which one is a primitive
StrictEq(a, b) == a.t = b.t /\ a.v = b.v
IsErr(x) == x.t = "err"

SymbolKeys == {"[Kind]", "[Optional]"}

IsObj(x) == x.t = "o"
IsArr(x) == x.t = "a"
isObjectLike(x) == x.t \in {"o", "a"}

\* x[k] for an object x; undefined when the key is absent or x is no object
Get(x, k) == IF x.t = "o" /\ k \in DOMAIN x.v THEN x.v[k] ELSE JUndef
Has(x, k) == x.t = "o" /\ k \in DOMAIN x.v
\* x[k] = val
Put(x, k, val) == JO((k :> val) @@ x.v)
\* delete x[k]
Del(x, k) == JO([j \in (DOMAIN x.v) \ {k} |-> x.v[j]])
\* JavaScript truthiness
Truthy(x) ==
  CASE x.t = "u" -> FALSE
    [] x.t = "z" -> FALSE
    [] x.t = "b" -> x.v
    [] x.t = "n" -> x.v # 0
    [] x.t = "s" -> x.v # ""
    [] OTHER -> TRUE

\* Object.keys(x): own enumerable string keys; the indices of a string;
\* nothing for a number or a boolean
ObjectKeys(x) ==
  CASE x.t = "o" -> (DOMAIN x.v) \ SymbolKeys
    [] x.t = "a" -> {ToString(i - 1) : i \in 1..Len(x.v)}
    [] x.t = "s" -> {ToString(i - 1) : i \in 1..Len(x.v)}
    [] OTHER -> {}

\* x[key] for a key of ObjectKeys(x)
Index(x, key) ==
  CASE x.t = "o" -> Get(x, key)
    [] x.t = "s" ->
         LET i == CHOOSE j \in 1..Len(x.v) : ToString(j - 1) = key
         IN  JS(SubSeq(x.v, i, i))
    [] OTHER -> JUndef

RECURSIVE isDeepEqual(_, _, _)
isDeepEqual(obj1, obj2, propsToIgnore) ==
  IF obj1.t = obj2.t /\ obj1.t \in {"s", "n", "b", "z", "u"} /\ obj1.v = obj2.v
  THEN TRUE
  ELSE IF obj1.t \in {"z", "u"} \/ obj2.t \in {"z", "u"}
          \/ (~isObjectLike(obj1) /\ ~isObjectLike(obj2))
  THEN FALSE
  ELSE IF IsArr(obj1) # IsArr(obj2)
  THEN FALSE
  ELSE IF IsArr(obj1)
  THEN /\ Len(obj1.v) = Len(obj2.v)
       /\ \A i \in 1..Len(obj1.v) :
            isDeepEqual(obj1.v[i], obj2.v[i], propsToIgnore)
  ELSE LET keys1 == ObjectKeys(obj1) \ propsToIgnore
           keys2 == ObjectKeys(obj2) \ propsToIgnore
       IN  /\ Cardinality(keys1) = Cardinality(keys2)
           /\ \A k \in keys1 : k \in keys2
           /\ \A k \in keys1 :
                isDeepEqual(Index(obj1, k), Index(obj2, k), propsToIgnore)

\* Type.Strict(schema) = JSON.parse(JSON.stringify(schema)): symbol keys
\* and undefined-valued keys are dropped, undefined array items become null
RECURSIVE Strict(_)
Strict(x) ==
  CASE x.t = "o" ->
         LET keep == {k \in (DOMAIN x.v) \ SymbolKeys : x.v[k].t # "u"}
         IN  JO([k \in keep |-> Strict(x.v[k])])
    [] x.t = "a" ->
         JA([i \in 1..Len(x.v) |->
               IF x.v[i].t = "u" THEN JNull ELSE Strict(x.v[i])])
    [] OTHER -> x

-----------------------------------------------------------------------------
(* typebox constructors (the string-keyed view plus the symbol keys) *)

Kind(x) == IF Has(x, "[Kind]") THEN x.v["[Kind]"].v ELSE ""
IsOptional(x) == Has(x, "[Optional]")

TypeString(options) ==
  JO(("[Kind]" :> JS("String")) @@ ("type" :> JS("string")) @@ options)
TypeNumber(options) ==
  JO(("[Kind]" :> JS("Number")) @@ ("type" :> JS("number")) @@ options)
TypeBoolean(options) ==
  JO(("[Kind]" :> JS("Boolean")) @@ ("type" :> JS("boolean")) @@ options)
TypeNull(options) ==
  JO(("[Kind]" :> JS("Null")) @@ ("type" :> JS("null")) @@ options)
TypeUnknown == JO("[Kind]" :> JS("Unknown"))
TypeNever == JO(("[Kind]" :> JS("Never")) @@ ("not" :> EmptyObj))
TypeOptional(x) == Put(x, "[Optional]", JS("Optional"))
TypeLiteral(value, options) ==
  JO(("[Kind]" :> JS("Literal")) @@ ("const" :> value)
     @@ ("type" :> JS(CASE value.t = "s" -> "string"
                        [] value.t = "n" -> "number"
                        [] OTHER -> "boolean")) @@ options)
TypeArray(items, options) ==
  JO(("[Kind]" :> JS("Array")) @@ ("type" :> JS("array"))
     @@ ("items" :> items) @@ options)

\* the keys of `order` (a sequence of property names) that are not Optional
RequiredKeys(properties, order) ==
  SelectSeq(order, LAMBDA k : ~IsOptional(properties[k]))

\* Type.Object(properties, options); `order` is the insertion order of the
\* property names, which decides the order of `required`
TypeObject(properties, order, options) ==
  LET requiredKeys == RequiredKeys(properties, order)
      base == ("[Kind]" :> JS("Object")) @@ ("type" :> JS("object"))
              @@ ("properties" :> JO(properties))
  IN  IF Len(requiredKeys) > 0
      THEN JO(base @@ ("required" :>
                 JA([i \in 1..Len(requiredKeys) |-> JS(requiredKeys[i])]))
              @@ options)
      ELSE JO(base @@ options)

\* Type.Union(schemas, options)
TypeUnion(members, options) ==
  IF Len(members) = 0 THEN TypeNever
  ELSE IF Len(members) = 1 THEN JO(options @@ members[1].v)
  ELSE JO(("[Kind]" :> JS("Union")) @@ ("anyOf" :> JA(members)) @@ options)

\* Type.Intersect(schemas, options)
TypeIntersect(members, options) ==
  IF Len(members) = 0 THEN TypeNever
  ELSE IF Len(members) = 1 THEN JO(options @@ members[1].v)
  ELSE LET allObjects == \A i \in 1..Len(members) : Kind(members[i]) = "Object"
           base == ("[Kind]" :> JS("Intersect")) @@ ("allOf" :> JA(members))
       IN  IF allObjects
           THEN JO(base @@ ("type" :> JS("object")) @@ options)
           ELSE JO(base @@ options)

-----------------------------------------------------------------------------
(* The schema objects the application declares.  A node is one JavaScript *)
(* object: its identity is its name, its open_api_ref annotation is the   *)
(* only part that changes.                                                *)

Leaves == {"S_de", "S_en", "S_en2", "S_fr"}
Arrays == {"A_fr"}
Validators == {"Q_de", "Q_en", "Q_en2", "Q_two"}
Nodes == Leaves \union Arrays \union Validators

\* the `examples` option of each Type.String leaf
LeafExamples ==
  [n \in Leaves |->
     CASE n = "S_de" -> "de"
       [] n = "S_en" -> "en"
       [] n = "S_en2" -> "en"
       [] n = "S_fr" -> "fr"]

\* the item schema of each Type.Array node
Items == [n \in Arrays |-> "S_fr"]

\* the properties of each Type.Object validator, in declaration order
Properties ==
  [n \in Validators |->
     CASE n = "Q_de" -> << <<"lang", "S_de">> >>
       [] n = "Q_en" -> << <<"lang", "S_en">> >>
       [] n = "Q_en2" -> << <<"lang", "S_en2">> >>
       [] n = "Q_two" -> << <<"lang", "S_fr">>, <<"code", "S_fr">>,
                            <<"langs", "A_fr">> >>]

Contexts == {"body", "query", "header", "cookie", "path"}

\* the open_api_ref key of a node, when it has been created
RefPart(R, n) ==
  IF DOMAIN R[n] = {} THEN <<>>
  ELSE "open_api_ref" :> JO([c \in DOMAIN R[n] |-> JS(R[n][c])])

\* the current value of a declared schema object, R being the annotations
RECURSIVE NodeValue(_, _)
NodeValue(R, n) ==
  IF n \in Leaves
  THEN JO(RefPart(R, n) @@ TypeString("examples" :> JS(LeafExamples[n])).v)
  ELSE IF n \in Arrays
  THEN JO(RefPart(R, n) @@ TypeArray(NodeValue(R, Items[n]), <<>>).v)
  ELSE LET props == Properties[n]
           order == [i \in 1..Len(props) |-> props[i][1]]
           properties ==
             [k \in {props[i][1] : i \in 1..Len(props)} |->
                NodeValue(R, props[CHOOSE i \in 1..Len(props) :
                                     props[i][1] = k][2])]
       IN  JO(RefPart(R, n) @@ TypeObject(properties, order, <<>>).v)

-----------------------------------------------------------------------------
(* The reference store.  D is the data the calls work on:                 *)
(*   parameters  components.parameters, name -> parameter object          *)
(*   schemas     components.schemas, name -> schema                       *)
(*   paths       the paths object                                         *)
(*   refs        node -> (context -> reference), the open_api_ref maps    *)
(*   calls       the reference-store calls made by the running handler    *)
(*   firstRef    node -> (context -> the reference the first call gave)   *)

ProbeLimit == 2000
\* the number of iterations evaluated in one piece
ProbeBlock == 50

Logged(D, call) ==
  LET n == call.schema
      c == call.ctx
      seen == n \in Nodes /\ c \in DOMAIN D.firstRef[n]
  IN  [D EXCEPT !.calls = Append(@, call @@ [seen |-> seen]),
                !.firstRef =
                   IF n \in Nodes /\ ~call.threw /\ c \notin DOMAIN D.firstRef[n]
                   THEN [@ EXCEPT ![n] = (c :> call.ret) @@ @]
                   ELSE @]

\* the probing loop without the comparison with the stored entry
RECURSIVE probeNoReuse(_, _, _, _)
probeNoReuse(P, parameter, curName, i) ==
  IF i >= ProbeLimit THEN [kind |-> "exhausted", name |-> curName]
  ELSE IF curName \in DOMAIN P
  THEN probeNoReuse(P, parameter,
                    parameter.v["name"].v \o "_" \o parameter.v["in"].v
                      \o ToString(i),
                    i + 1)
  ELSE [kind |-> "fresh", name |-> curName]

\* the iterations of the for loop of addParameterToSchema from i up to
\* limit, with candidate curName: the free name, the name of an equal
\* entry, or the candidate and the iteration the loop goes on with
RECURSIVE probeUpTo(_, _, _, _, _)
probeUpTo(P, parameter, curName, i, limit) ==
  IF i >= limit THEN [kind |-> "more", name |-> curName, i |-> i]
  ELSE IF curName \in DOMAIN P
  THEN IF isDeepEqual(parameter, P[curName], {"open_api_ref"})
       THEN [kind |-> "equal", name |-> curName]
       ELSE probeUpTo(P, parameter,
                      parameter.v["name"].v \o "_" \o parameter.v["in"].v
                        \o ToString(i),
                      i + 1, limit)
  ELSE [kind |-> "fresh", name |-> curName]

\* the for loop of addParameterToSchema, from iteration i with candidate
\* curName: the free name, the name of an equal entry, or exhaustion.  The
\* iterations are evaluated ProbeBlock at a time: the candidate of an
\* iteration j after the first is the name with the suffix j - 1, so the
\* loop ends in the first piece that does not ask for more.
probe(P, parameter, curName, i) ==
  LET base == parameter.v["name"].v \o "_" \o parameter.v["in"].v
      nameAt(j) == IF j = i THEN curName ELSE base \o ToString(j - 1)
      starts == {i + k * ProbeBlock :
                   k \in 0..((ProbeLimit - 1 - i) \div ProbeBlock)}
      piece(j) == probeUpTo(P, parameter, nameAt(j), j,
                            IF j + ProbeBlock < ProbeLimit
                            THEN j + ProbeBlock ELSE ProbeLimit)
  IN  IF i >= ProbeLimit THEN [kind |-> "exhausted", name |-> curName]
      ELSE IF \A j \in starts : piece(j).kind = "more"
      THEN [kind |-> "exhausted", name |-> nameAt(ProbeLimit)]
      ELSE piece(CHOOSE j \in starts :
                   /\ piece(j).kind # "more"
                   /\ \A k \in starts : k < j => piece(k).kind = "more")

\* what is stored for a fresh name: {...parameter, schema: {...Strict(schema)}}
\* with schema.open_api_ref deleted
parameterCopy(parameter, schemaValue) ==
  Put(parameter, "schema", Del(Strict(schemaValue), "open_api_ref"))

\* the log record of a call addParameterToSchema(parameter, schema)
parameterCall(D, parameter, schema) ==
  [fn |-> "addParameterToSchema", schema |-> schema,
   ctx |-> parameter.v["in"].v, name |-> parameter.v["name"].v,
   parameter |-> parameter, pre |-> D.parameters, preRefs |-> D.refs[schema]]

\* the store that also adds the parameter when the loop found no name
storeParameterWithoutName(D, call, r, ref) ==
  CASE r.kind = "equal" ->
         Logged(D, call @@ [ret |-> ref, fast |-> FALSE, threw |-> FALSE,
                            post |-> D.parameters])
    [] OTHER ->
         Logged([D EXCEPT
                   !.parameters =
                      (r.name :> parameterCopy(call.parameter,
                                               NodeValue(D.refs, call.schema)))
                      @@ @,
                   !.refs[call.schema] = (call.ctx :> ref) @@ @],
                call @@ [ret |-> ref, fast |-> FALSE,
                         threw |-> r.kind = "exhausted",
                         post |-> (r.name :>
                                     parameterCopy(call.parameter,
                                                   NodeValue(D.refs,
                                                             call.schema)))
                                  @@ D.parameters])

\* addParameterToSchema after its first return: probe the names, store the
\* parameter under a fresh one and write the reference onto the node
storeParameter(D, call, r, ref) ==
  CASE r.kind = "equal" ->
         Logged(D, call @@ [ret |-> ref, fast |-> FALSE, threw |-> FALSE,
                            post |-> D.parameters])
    [] r.kind = "exhausted" ->
         Logged(D, call @@ [ret |-> "", fast |-> FALSE, threw |-> TRUE,
                            post |-> D.parameters])
    [] OTHER ->
         Logged([D EXCEPT
                   !.parameters =
                      (r.name :> parameterCopy(call.parameter,
                                               NodeValue(D.refs, call.schema)))
                      @@ @,
                   !.refs[call.schema] = (call.ctx :> ref) @@ @],
                call @@ [ret |-> ref, fast |-> FALSE, threw |-> FALSE,
                         post |-> (r.name :>
                                     parameterCopy(call.parameter,
                                                   NodeValue(D.refs,
                                                             call.schema)))
                                  @@ D.parameters])

probeAndStore(D, call, r) ==
  storeParameter(D, call, r, "#/components/parameters/" \o r.name)

addParameterToSchemaProbing(D, parameter, schema) ==
  probeAndStore(D, parameterCall(D, parameter, schema),
                probe(D.parameters, parameter,
                      parameter.v["name"].v \o "_" \o parameter.v["in"].v, 0))

\* addParameterToSchema without its first return
addParameterToSchemaNoFastPath(D, parameter, schema) ==
  addParameterToSchemaProbing(D, parameter, schema)

\* addParameterToSchema(parameter, schema): schema is the node the property
\* was declared with.  The result is D after the call, with the call logged.
addParameterToSchema(D, parameter, schema) ==
  IF parameter.v["in"].v \in DOMAIN D.refs[schema]
  THEN Logged(D, parameterCall(D, parameter, schema)
                   @@ [ret |-> D.refs[schema][parameter.v["in"].v],
                       fast |-> TRUE, threw |-> FALSE, post |-> D.parameters])
  ELSE addParameterToSchemaProbing(D, parameter, schema)

\* the log record of a call addBodyTypeToSchema(name, schema)
bodyCall(D, name, schema) ==
  [fn |-> "addBodyTypeToSchema", schema |-> schema, ctx |-> "body",
   name |-> name, parameter |-> JUndef, pre |-> D.schemas,
   preRefs |-> IF schema \in Nodes THEN D.refs[schema] ELSE <<>>]

\* addBodyTypeToSchema after its first return: store the schema under the
\* name and write the reference onto the node
addBodyTypeToSchemaStore(D, name, schema, value) ==
  Logged([D EXCEPT
            !.schemas = (name :> Strict(value)) @@ @,
            !.refs = IF schema \in Nodes
                     THEN [@ EXCEPT ![schema] =
                             ("body" :> ("#/components/schema/" \o name)) @@ @]
                     ELSE @],
         bodyCall(D, name, schema)
           @@ [ret |-> "#/components/schemas/" \o name, fast |-> FALSE,
               threw |-> FALSE,
               post |-> (name :> Strict(value)) @@ D.schemas])

\* addBodyTypeToSchema without its first return
addBodyTypeToSchemaNoFastPath(D, name, schema, value) ==
  addBodyTypeToSchemaStore(D, name, schema, value)

\* addBodyTypeToSchema(name, schema): schema is a declared node, or "fresh"
\* for a schema object made for this call (value is then its value)
addBodyTypeToSchema(D, name, schema, value) ==
  IF schema \in Nodes /\ "body" \in DOMAIN D.refs[schema]
  THEN Logged(D, bodyCall(D, name, schema)
                   @@ [ret |-> D.refs[schema]["body"], fast |-> TRUE,
                       threw |-> FALSE, post |-> D.schemas])
  ELSE addBodyTypeToSchemaStore(D, name, schema, value)

\* the reference a call returned
LastRet(D) == D.calls[Len(D.calls)].ret
LastThrew(D) == Len(D.calls) > 0 /\ D.calls[Len(D.calls)].threw

-----------------------------------------------------------------------------
(* String helpers of JavaScript *)

\* str.charAt(i), i counted from 0
charAt(str, i) == IF i < Len(str) THEN SubSeq(str, i + 1, i + 1) ELSE ""
\* str.substring(i)
substring(str, i) == IF i < Len(str) THEN SubSeq(str, i + 1, Len(str)) ELSE ""

LowerCase == <<"a", "b", "c", "d", "e", "f", "g", "h", "i", "j", "k", "l", "m",
               "n", "o", "p", "q", "r", "s", "t", "u", "v", "w", "x", "y", "z">>
UpperCase == <<"A", "B", "C", "D", "E", "F", "G", "H", "I", "J", "K", "L", "M",
               "N", "O", "P", "Q", "R", "S", "T", "U", "V", "W", "X", "Y", "Z">>
\* c.toUpperCase() for a string of at most one character
toUpperCase(c) ==
  IF \E i \in 1..26 : LowerCase[i] = c
  THEN UpperCase[CHOOSE i \in 1..26 : LowerCase[i] = c]
  ELSE c

\* str.toLowerCase()
RECURSIVE toLowerCase(_)
toLowerCase(str) ==
  IF str = "" THEN ""
  ELSE (IF \E i \in 1..26 : UpperCase[i] = Head(str)
        THEN LowerCase[CHOOSE i \in 1..26 : UpperCase[i] = Head(str)]
        ELSE Head(str)) \o toLowerCase(Tail(str))

\* str.toUpperCase()
RECURSIVE toUpperCaseAll(_)
toUpperCaseAll(str) ==
  IF str = "" THEN "" ELSE toUpperCase(Head(str)) \o toUpperCaseAll(Tail(str))

\* str.replaceAll(/\//g, '_')
RECURSIVE replaceSlashes(_)
replaceSlashes(str) ==
  IF str = "" THEN ""
  ELSE (IF Head(str) = "/" THEN "_" ELSE Head(str)) \o replaceSlashes(Tail(str))

\* the characters \w matches
isWordChar(c) ==
  \/ \E i \in 1..26 : LowerCase[i] = c \/ UpperCase[i] = c
  \/ c \in {"0", "1", "2", "3", "4", "5", "6", "7", "8", "9", "_"}

\* the longest prefix of str made of \w characters
RECURSIVE wordPrefix(_)
wordPrefix(str) ==
  IF str = "" \/ ~isWordChar(Head(str)) THEN ""
  ELSE Head(str) \o wordPrefix(Tail(str))

\* path.match(/\/:\w*/g) with the leading "/:" of each match removed
RECURSIVE pathParameterNames(_)
pathParameterNames(path) ==
  IF Len(path) < 2 THEN <<>>
  ELSE IF SubSeq(path, 1, 2) = "/:"
  THEN LET w == wordPrefix(substring(path, 2))
       IN  <<w>> \o pathParameterNames(substring(path, 2 + Len(w)))
  ELSE pathParameterNames(Tail(path))

\* `/foo` => `Foo`
capitalizedRoute(path) == toUpperCase(charAt(path, 1)) \o substring(path, 2)

-----------------------------------------------------------------------------
(* Route registration *)

\* a regular expression that is a run of ordinary characters, as /foo/
JRe(source) == [t |-> "re", v |-> source]

\* regex.test(str) for such an expression: str has the run somewhere
RegExpTest(regex, str) ==
  \E i \in 1..Len(str) :
    /\ i + Len(regex.v) - 1 <= Len(str)
    /\ SubSeq(str, i, i + Len(regex.v) - 1) = regex.v

\* arrayify(potentialArray)
arrayify(potentialArray) ==
  IF IsArr(potentialArray) \/ potentialArray.t = "u" THEN potentialArray
  ELSE JA(<<potentialArray>>)

\* openApiOptions.openApi.defaultTag is not configured; excludePaths and
\* excludeMethod are the options of the constructor, made arrays
defaultTag == JUndef
excludePaths == arrayify(openApiOptions.excludePaths)
excludeMethod == arrayify(openApiOptions.excludeMethod)

\* the exclusion that looks at the methods only
isExcludedRouteMethodOnly(path, method) ==
  /\ IsArr(excludeMethod)
  /\ \E i \in 1..Len(excludeMethod.v) : StrictEq(excludeMethod.v[i], JS(method))

isExcludedRoute(path, method) ==
  \/ /\ IsArr(excludeMethod)
     /\ \E i \in 1..Len(excludeMethod.v) : StrictEq(excludeMethod.v[i], JS(method))
  \/ /\ IsArr(excludePaths)
     /\ \E i \in 1..Len(excludePaths.v) :
          IF excludePaths.v[i].t = "s" THEN excludePaths.v[i].v = path
          ELSE RegExpTest(excludePaths.v[i], path)

\* METHODS of hono, and isValidHttpMethod(method)
METHODS == {"get", "post", "put", "delete", "options", "patch"}
isValidHttpMethod(method) == method = "all" \/ method \in METHODS

\* mergePath(base, path) for a base and a path that begin with a slash and
\* do not end with one
mergePath(base, path) ==
  IF base = "/" THEN path ELSE IF path = "/" THEN base ELSE base \o path

\* a ?? b
Coalesce(a, b) == IF a.t \in {"u", "z"} THEN b ELSE a

\* the (location, name, node, required) of every property of the validator
\* declared for a location, in Object.entries order
parameterTasks(R, loc, validator) ==
  LET props == Properties[validator]
      definition == NodeValue(R, validator)
      required == Get(definition, "required")
  IN  [i \in 1..Len(props) |->
         [loc |-> loc, name |-> props[i][1], schema |-> props[i][2],
          required |-> /\ IsArr(required)
                       /\ \E j \in 1..Len(required.v) :
                            StrictEq(required.v[j], JS(props[i][1]))]]

\* the ParameterObject addParameter builds for one property
parameterObject(R, task) ==
  LET schema == NodeValue(R, task.schema)
      examples == Get(schema, "examples")
      exampleIsArray == IsArr(examples)
  IN  JO(("in" :> JS(task.loc)) @@ ("name" :> JS(task.name))
         @@ ("schema" :> schema) @@ ("required" :> JB(task.required))
         @@ ("examples" :> IF exampleIsArray THEN examples ELSE JUndef)
         @@ ("example" :> IF exampleIsArray THEN JUndef ELSE examples))

\* addParameter(target, name, schema, required) of addOrAugmentOpenApiRoute
\* for one property; S holds the data, the {$ref} entries collected so far
\* and whether addParameterToSchema threw, which ends the registration
collectReference(D2, acc) ==
  IF LastThrew(D2) THEN [D |-> D2, parameters |-> acc, threw |-> TRUE]
  ELSE [D |-> D2, parameters |-> Append(acc, JO("$ref" :> JS(LastRet(D2)))),
        threw |-> FALSE]

addParameter(S, task) ==
  IF S.threw THEN S
  ELSE collectReference(
         addParameterToSchema(S.D, parameterObject(S.D.refs, task),
                              task.schema),
         S.parameters)

RECURSIVE addParameters(_, _)
addParameters(S, tasks) ==
  IF tasks = <<>> THEN S
  ELSE addParameters(addParameter(S, Head(tasks)), Tail(tasks))

\* the locations addParameter is called for, in the order of the calls
locationTargets == << <<"query", "query">>, <<"cookie", "cookie">>,
                      <<"header", "header">>, <<"path", "param">> >>

RECURSIVE allParameterTasks(_, _, _)
allParameterTasks(R, validationSchema, i) ==
  IF i > Len(locationTargets) THEN <<>>
  ELSE (IF locationTargets[i][2] \in DOMAIN validationSchema
        THEN parameterTasks(R, locationTargets[i][1],
                            validationSchema[locationTargets[i][2]])
        ELSE <<>>)
       \o allParameterTasks(R, validationSchema, i + 1)

\* the in-line path parameters read off the path when no param validator
\* is declared
inferredPathParameters(path) ==
  LET names == pathParameterNames(path)
  IN  [i \in 1..Len(names) |->
         JO(("in" :> JS("path")) @@ ("name" :> JS(names[i]))
            @@ ("schema" :> TypeString(<<>>)) @@ ("required" :> JB(TRUE)))]

\* a path item that takes the place of the one the document has
addPathReplace(ps, path, pathInfo) == Put(ps, path, pathInfo)

\* openApiBuilder.addPath(path, pathInfo)
addPath(ps, path, pathInfo) ==
  Put(ps, path, JO(pathInfo.v @@ Coalesce(Get(ps, path), EmptyObj).v))

\* an operation built without the responses of the existing one
freshResponses(existingSpec) == EmptyObj

\* responses: existingSpec?.responses ?? {}
keptResponses(existingSpec) ==
  Coalesce(Get(existingSpec, "responses"), EmptyObj)

\* the end of addOrAugmentOpenApiRoute: the operation is built and handed to
\* addPath.  added is the outcome of the addParameter calls.
addToApiBuilder(added, requestBody, method, path, routeDefinition, inferred) ==
  LET existingSpec == Get(Get(added.D.paths, path), method)
      operationId == Coalesce(Get(routeDefinition, "operationId"),
                              JS(method \o capitalizedRoute(path)))
      parameterList ==
        IF "param" \in DOMAIN inferred THEN added.parameters
        ELSE added.parameters \o inferredPathParameters(path)
      tags == IF Truthy(Coalesce(Get(routeDefinition, "tags"), defaultTag))
              THEN JA(<<defaultTag>>) ELSE JUndef
      keep(field) == Coalesce(Get(routeDefinition, field),
                              Get(existingSpec, field))
      operation ==
        JO(("summary" :> keep("summary"))
           @@ ("description" :> keep("description"))
           @@ ("deprecated" :> keep("deprecated"))
           @@ ("tags" :> tags)
           @@ ("externalDocs" :> keep("externalDocs"))
           @@ ("operationId" :> operationId)
           @@ ("requestBody" :> requestBody)
           @@ ("parameters" :> JA(parameterList))
           @@ ("security" :> keep("security"))
           @@ ("responses" :> keptResponses(existingSpec)))
      pathInfo == JO(("$ref" :> Get(routeDefinition, "$ref"))
                     @@ ("servers" :> keep("servers"))
                     @@ (method :> operation))
  IN  IF added.threw THEN added.D
      ELSE [added.D EXCEPT !.paths = addPath(@, path, pathInfo)]

\* the registration that writes no request body
addRouteParametersNoBody(D1, method, path, routeDefinition, validationSchema) ==
  addToApiBuilder(
    addParameters([D |-> D1, parameters |-> <<>>, threw |-> FALSE],
                  allParameterTasks(D1.refs, validationSchema, 1)),
    JUndef, method, path, routeDefinition, validationSchema)

\* the middle of addOrAugmentOpenApiRoute: the parameters of every location;
\* D1 is the data after the request body has been registered
addRouteParameters(D1, method, path, routeDefinition, validationSchema) ==
  addToApiBuilder(
    addParameters([D |-> D1, parameters |-> <<>>, threw |-> FALSE],
                  allParameterTasks(D1.refs, validationSchema, 1)),
    IF "json" \in DOMAIN validationSchema
    THEN JO("content" :> JO("application/json" :>
              JO("schema" :> JO("$ref" :> JS(LastRet(D1))))))
    ELSE JUndef,
    method, path, routeDefinition, validationSchema)

\* the registration without the return for an operation that exists
addOrAugmentOpenApiRouteAlways(D, method, path, routeDefinition, validationSchema) ==
  addRouteParameters(
    IF "json" \in DOMAIN validationSchema
    THEN addBodyTypeToSchema(
           D, capitalizedRoute(path) \o "Request_" \o method,
           validationSchema["json"],
           NodeValue(D.refs, validationSchema["json"]))
    ELSE D,
    method, path, routeDefinition, validationSchema)

\* addOrAugmentOpenApiRoute(method, path, routeDefinition, validationSchema):
\* routeDefinition is undefined for a handler that is no openApi middleware;
\* validationSchema maps the declared targets to their validator nodes
addOrAugmentOpenApiRoute(D, method, path, routeDefinition, validationSchema) ==
  IF routeDefinition.t = "u" /\ Get(Get(D.paths, path), method).t # "u" THEN D
  ELSE addRouteParameters(
         IF "json" \in DOMAIN validationSchema
         THEN addBodyTypeToSchema(
                D, capitalizedRoute(path) \o "Request_" \o method,
                validationSchema["json"],
                NodeValue(D.refs, validationSchema["json"]))
         ELSE D,
         method, path, routeDefinition, validationSchema)

-----------------------------------------------------------------------------
(* Schema inference and compilation *)

\* Property names in the order objects list them.  Objects are kept as
\* functions, so every object of the model lists its keys in this order.
KeyUniverse == <<"a", "b", "c", "code", "lang", "langs">>
KeyOrder(keys) == SelectSeq(KeyUniverse, LAMBDA k : k \in keys)

Seq2Set(q) == {q[i] : i \in 1..Len(q)}

\* Type.Tuple(items, options)
TypeTuple(items, options) ==
  IF Len(items) > 0
  THEN JO(("[Kind]" :> JS("Tuple")) @@ ("type" :> JS("array"))
          @@ ("items" :> JA(items)) @@ ("additionalItems" :> JB(FALSE))
          @@ ("minItems" :> JN(Len(items))) @@ ("maxItems" :> JN(Len(items)))
          @@ options)
  ELSE JO(("[Kind]" :> JS("Tuple")) @@ ("type" :> JS("array"))
          @@ ("minItems" :> JN(0)) @@ ("maxItems" :> JN(0)) @@ options)

\* jsonStringToTypeboxSchema: the reviver applied bottom-up to the value
\* JSON.parse reads from the response text
RECURSIVE jsonStringToTypeboxSchema(_)
jsonStringToTypeboxSchema(value) ==
  CASE value.t = "z" -> TypeNull(<<>>)
    [] value.t = "b" -> TypeBoolean("example" :> value)
    [] value.t = "n" -> TypeNumber("example" :> value)
    [] value.t = "s" -> TypeString("example" :> value)
    [] value.t = "a" ->
         LET items == [i \in 1..Len(value.v) |->
                         jsonStringToTypeboxSchema(value.v[i])]
             haveSameType == \A i \in 1..Len(items) :
                               StrictEq(Get(items[i], "type"),
                                        Get(items[1], "type"))
         IN  IF haveSameType
             THEN TypeArray(IF Len(items) > 0 THEN items[1] ELSE EmptyObj, <<>>)
             ELSE TypeTuple(items, ("minItems" :> JN(0))
                                   @@ ("maxItems" :> JN(1000)))
    [] OTHER ->
         TypeObject([k \in DOMAIN value.v |->
                       jsonStringToTypeboxSchema(value.v[k])],
                    KeyOrder(DOMAIN value.v),
                    "additionalProperties" :> JB(FALSE))

textStringToTypeboxSchema(text) == TypeString("example" :> JS(text))

StructuralKeys == {"title", "type", "items", "allOf", "anyOf", "oneOf", "not",
                   "properties", "required", "const", "enum"}

\* parseSchemaOptions: the non-structural keys, <<>> standing for undefined
parseSchemaOptions(schema) ==
  [k \in (DOMAIN schema.v) \ StructuralKeys |-> schema.v[k]]

AnyErr(q) == \E i \in 1..Len(q) : IsErr(q[i])

\* parseType: a literal of an enum or const
RECURSIVE parseType(_)
parseType(type) ==
  CASE type.t = "s" -> TypeLiteral(type, <<>>)
    [] type.t = "z" -> TypeNull(<<>>)
    [] type.t \in {"n", "b"} -> TypeLiteral(type, <<>>)
    [] type.t = "a" ->
         TypeArray(IF Len(type.v) > 0 THEN parseType(type.v[1]) ELSE EmptyObj,
                   <<>>)
    [] OTHER ->
         TypeObject([k \in DOMAIN type.v |-> parseType(type.v[k])],
                    KeyOrder(DOMAIN type.v), <<>>)

parsePrimitive(type, schema) ==
  LET schemaOptions == parseSchemaOptions(schema)
  IN  CASE type \in {"number", "integer"} -> TypeNumber(schemaOptions)
        [] type = "string" -> TypeString(schemaOptions)
        [] type = "boolean" -> TypeBoolean(schemaOptions)
        [] type = "null" -> TypeNull(schemaOptions)
        [] OTHER -> JErr

\* jsonSchemaToTypebox, JErr standing for a thrown error
RECURSIVE jsonSchemaToTypebox(_)
jsonSchemaToTypebox(schema) ==
  IF schema.t = "b" THEN TypeBoolean(<<>>)
  ELSE IF schema.t \in {"u", "z"} THEN JErr
  ELSE IF schema.t # "o" THEN JErr
  ELSE
  LET schemaOptions == parseSchemaOptions(schema)
      type == Get(schema, "type")
      compiled(list) == [i \in 1..Len(list.v) |-> jsonSchemaToTypebox(list.v[i])]
  IN
  IF StrictEq(type, JS("object"))
  THEN \* parseObject
       LET properties == Get(schema, "properties")
           requiredProperties == Get(schema, "required")
           isRequired(k) == /\ IsArr(requiredProperties)
                            /\ JS(k) \in Seq2Set(requiredProperties.v)
           children == [k \in DOMAIN properties.v |->
                          jsonSchemaToTypebox(properties.v[k])]
       IN  IF properties.t = "u" THEN TypeUnknown
           ELSE IF \E k \in DOMAIN children : IsErr(children[k]) THEN JErr
           ELSE TypeObject([k \in DOMAIN children |->
                              IF isRequired(k) THEN children[k]
                              ELSE TypeOptional(children[k])],
                           KeyOrder(DOMAIN children),
                           IF schemaOptions = <<>>
                           THEN "additionalProperties" :> JB(FALSE)
                           ELSE schemaOptions)
  ELSE IF Has(schema, "enum") /\ Get(schema, "enum").t # "u"
  THEN \* parseEnum
       TypeUnion([i \in 1..Len(schema.v["enum"].v) |->
                    parseType(schema.v["enum"].v[i])], schemaOptions)
  ELSE IF Get(schema, "anyOf").t # "u"
  THEN \* parseAnyOf
       LET childSchemas == compiled(schema.v["anyOf"])
       IN  IF AnyErr(childSchemas) THEN JErr
           ELSE TypeUnion(childSchemas, schemaOptions)
  ELSE IF Get(schema, "allOf").t # "u"
  THEN \* parseAllOf
       LET childSchema == compiled(schema.v["allOf"])
       IN  IF AnyErr(childSchema) THEN JErr
           ELSE TypeIntersect(childSchema, schemaOptions)
  ELSE IF Get(schema, "oneOf").t # "u"
  THEN \* parseOneOf
       LET childSchema == compiled(schema.v["oneOf"])
       IN  IF AnyErr(childSchema) THEN JErr
           ELSE JO(("[Kind]" :> JS("ExtendedOneOf"))
                   @@ ("oneOf" :> JA(childSchema)) @@ schemaOptions)
  ELSE IF Get(schema, "not").t # "u"
  THEN \* parseNot
       LET childSchema == jsonSchemaToTypebox(schema.v["not"])
       IN  IF IsErr(childSchema) THEN JErr
           ELSE JO(("[Kind]" :> JS("Not")) @@ ("not" :> childSchema)
                   @@ schemaOptions)
  ELSE IF StrictEq(type, JS("array")) /\ Get(schema, "items").t # "u"
  THEN \* parseArray
       LET items == schema.v["items"]
       IN  IF IsArr(items)
           THEN LET childSchema == compiled(items)
                IN  IF AnyErr(childSchema) THEN JErr
                    ELSE TypeArray(TypeUnion(childSchema, <<>>), schemaOptions)
           ELSE LET child == jsonSchemaToTypebox(items)
                IN  IF IsErr(child) THEN JErr
                    ELSE TypeArray(child, schemaOptions)
  ELSE IF IsArr(type)
  THEN \* parseWithMultipleTypes
       LET children == [i \in 1..Len(type.v) |->
                          parsePrimitive(type.v[i].v, EmptyObj)]
       IN  IF AnyErr(children) THEN JErr ELSE TypeUnion(children, <<>>)
  ELSE IF Get(schema, "const").t # "u"
  THEN \* parseConst
       LET const == schema.v["const"]
       IN  IF IsArr(const)
           THEN TypeUnion([i \in 1..Len(const.v) |-> parseType(const.v[i])],
                          schemaOptions)
           ELSE IF const.t \in {"o", "z"} THEN JErr
           ELSE TypeLiteral(const, schemaOptions)
  ELSE IF type.t = "s" THEN parsePrimitive(type.v, schema)
  ELSE JErr

-----------------------------------------------------------------------------
(* Schema algebra: Value.Check, mergeObjectSchemas, flattenIntersections *)

\* the entries of schema.required, as a set of property names
RequiredSet(schema) ==
  LET required == Get(schema, "required")
  IN  IF IsArr(required) THEN {required.v[i].v : i \in 1..Len(required.v)}
      ELSE {}

\* Value.Check(schema, value) of typebox for the kinds the compiler produces
RECURSIVE Check(_, _)
Check(schema, value) ==
  LET kind == Kind(schema) IN
  CASE kind = "Object" ->
         /\ value.t = "o"
         /\ LET properties == Get(schema, "properties")
                knownKeys == DOMAIN properties.v
                valueKeys == DOMAIN value.v
                required == RequiredSet(schema)
            IN  /\ \A k \in knownKeys :
                     IF k \in required
                     THEN /\ Check(properties.v[k], Get(value, k))
                          /\ (Kind(properties.v[k]) \in {"Unknown", "Any"}
                                => k \in valueKeys)
                     ELSE Get(value, k).t # "u"
                            => Check(properties.v[k], Get(value, k))
                /\ StrictEq(Get(schema, "additionalProperties"), JB(FALSE))
                     => valueKeys \subseteq knownKeys
    [] kind = "String" -> value.t = "s"
    [] kind = "Number" -> value.t = "n"
    [] kind = "Boolean" -> value.t = "b"
    [] kind = "Null" -> value.t = "z"
    [] kind = "Literal" -> StrictEq(value, Get(schema, "const"))
    [] kind \in {"Unknown", "Any"} -> TRUE
    [] kind = "Array" ->
         /\ value.t = "a"
         /\ \A i \in 1..Len(value.v) : Check(Get(schema, "items"), value.v[i])
    [] kind = "Tuple" ->
         /\ value.t = "a"
         /\ IF Has(schema, "items")
            THEN /\ Len(value.v) = Len(schema.v["items"].v)
                 /\ \A i \in 1..Len(value.v) :
                      Check(schema.v["items"].v[i], value.v[i])
            ELSE Len(value.v) = 0
    [] kind = "Union" ->
         \E i \in 1..Len(schema.v["anyOf"].v) :
           Check(schema.v["anyOf"].v[i], value)
    [] kind = "Intersect" ->
         \A i \in 1..Len(schema.v["allOf"].v) :
           Check(schema.v["allOf"].v[i], value)
    [] kind = "ExtendedOneOf" ->
         Cardinality({i \in 1..Len(schema.v["oneOf"].v) :
                        Check(schema.v["oneOf"].v[i], value)}) = 1
    [] kind = "Not" -> ~Check(schema.v["not"], value)
    [] OTHER -> FALSE

\* the property names of an operand of Type.Composite
CompositeKeys(x) ==
  IF Kind(x) = "Object" THEN DOMAIN Get(x, "properties").v ELSE {}

\* Type.Composite([x, y]) for object operands and operands without
\* properties: every property is the evaluated intersection of the operands'
\* properties of that name
Composite(x, y) ==
  LET xKeys == CompositeKeys(x)
      yKeys == CompositeKeys(y)
      order == KeyOrder(xKeys) \o KeyOrder(yKeys \ xKeys)
      removeOptional(T) == Del(T, "[Optional]")
      property(k) ==
        IF k \in xKeys /\ k \in yKeys
        THEN LET px == x.v["properties"].v[k]
                 py == y.v["properties"].v[k]
                 both == TypeIntersect(<<removeOptional(px),
                                         removeOptional(py)>>, <<>>)
             IN  IF IsOptional(px) /\ IsOptional(py)
                 THEN TypeOptional(both) ELSE both
        ELSE IF k \in xKeys THEN x.v["properties"].v[k]
        ELSE y.v["properties"].v[k]
  IN  TypeObject([k \in xKeys \union yKeys |-> property(k)], order, <<>>)

\* the merge that leaves the required names to Type.Composite
mergeObjectSchemasComposite(x, y) == Composite(x, y)

\* the merge that keeps the required names of the first schema
mergeObjectSchemasFirstRequired(x, y) ==
  Put(Composite(x, y), "required",
      IF IsArr(Get(x, "required")) THEN Get(x, "required") ELSE JA(<<>>))

\* mergeObjectSchemas([x, y])
mergeObjectSchemas(x, y) ==
  LET xRequired == Get(x, "required")
      existsInBoth ==
        IF IsArr(xRequired)
        THEN SelectSeq(xRequired.v, LAMBDA r : r.v \in RequiredSet(y))
        ELSE <<>>
      merged == Composite(x, y)
  IN  Put(merged, "required", JA(existsInBoth))

buildObjectOptions(schema) ==
  LET kept == {k \in {"$id", "additionalProperties", "default", "description",
                      "examples", "minProperties", "maxProperties", "title"} :
                 Truthy(Get(schema, k))}
  IN  [k \in kept |-> schema.v[k]]

\* flattenIntersections(schema), JErr standing for a thrown error
RECURSIVE flattenIntersections(_)
flattenIntersections(schema) ==
  LET kind == Kind(schema) IN
  IF kind = "Intersect"
  THEN LET allOf == schema.v["allOf"].v
           supported(v) ==
             IF Kind(v) \in {"Array", "Object"}
             THEN ~IsErr(flattenIntersections(v))
             ELSE Kind(v) \in {"String", "Boolean", "Number", "Null"}
           \* the members kept: those no earlier member equals
           kept == {i \in 1..Len(allOf) :
                      \A j \in 1..(i - 1) :
                        ~isDeepEqual(allOf[j], allOf[i], {"example"})}
           deduplicatedSchemas ==
             SelectSeq([i \in 1..Len(allOf) |-> [i |-> i, v |-> allOf[i]]],
                       LAMBDA e : e.i \in kept)
       IN  IF \E i \in 1..Len(allOf) : ~supported(allOf[i]) THEN JErr
           ELSE IF Len(deduplicatedSchemas) > 1
           THEN TypeIntersect([i \in 1..Len(deduplicatedSchemas) |->
                                 deduplicatedSchemas[i].v], schema.v)
           ELSE IF Len(deduplicatedSchemas) = 1 THEN deduplicatedSchemas[1].v
           ELSE JUndef
  ELSE IF kind = "Array"
  THEN LET children == flattenIntersections(Get(schema, "items"))
       IN  IF IsErr(children) THEN JErr ELSE TypeArray(children, <<>>)
  ELSE IF kind = "Object"
  THEN LET properties == Get(schema, "properties")
           required == RequiredSet(schema)
           flattened ==
             [k \in DOMAIN properties.v |->
                LET propSchema == properties.v[k]
                    needsOptional == k \notin required /\ ~IsOptional(propSchema)
                    flattenedSchema == flattenIntersections(propSchema)
                IN  IF IsErr(flattenedSchema) THEN JErr
                    ELSE IF needsOptional THEN TypeOptional(flattenedSchema)
                    ELSE flattenedSchema]
       IN  IF \E k \in DOMAIN flattened : IsErr(flattened[k]) THEN JErr
           ELSE TypeObject(flattened, KeyOrder(DOMAIN flattened),
                           buildObjectOptions(schema))
  ELSE schema

-----------------------------------------------------------------------------
(* The response sampler: snoopOnResponseHandler *)

sampleCountKey == "x-openapi-sample-count"

Infinity == [t |-> "inf", v |-> 0]

STATUS_CODE_MAP(statusCode) ==
  CASE statusCode = 200 -> "Success"
    [] statusCode = 400 -> "Validation Error"
    [] statusCode = 403 -> "Forbidden"
    [] statusCode = 404 -> "Not Found"
    [] statusCode = 418 -> "I'm a teampot"
    [] statusCode = 500 -> "Internal Server Error"
    [] statusCode = 504 -> "Gateway Timeout"
    [] OTHER -> ""

prettyName(path, method, contentType, statusCode) ==
  replaceSlashes(capitalizedRoute(path) \o "Response_" \o method \o "_"
                 \o contentType \o "_" \o ToString(statusCode))

\* x[k1][k2]... = val along a sequence of keys
RECURSIVE PutIn(_, _, _)
PutIn(x, ks, val) ==
  IF ks = <<>> THEN val
  ELSE Put(x, Head(ks), PutIn(Get(x, Head(ks)), Tail(ks), val))

\* x?.[k1]?.[k2]...
RECURSIVE GetIn(_, _)
GetIn(x, ks) == IF ks = <<>> THEN x ELSE GetIn(Get(x, Head(ks)), Tail(ks))

\* the schema object of a response of the document
schemaPath(o) ==
  <<o.path, o.method, "responses", ToString(o.status), "content",
    o.contentType, "schema">>

\* the gate without the test for a first response
sampleBailFirst(ps, o, O, random) ==
  LET sampleInterval == Coalesce(Get(O, "samplingInterval"), JN(10))
      maxResponsesToSample == Coalesce(Get(O, "samplingMaxCount"), Infinity)
      sampledCount == Coalesce(Get(GetIn(ps, schemaPath(o)), sampleCountKey),
                               JN(0))
  IN  \/ /\ maxResponsesToSample.t = "n"
         /\ sampledCount.v >= maxResponsesToSample.v
      \/ random > sampleInterval.v

\* the part of the handler before the body is read: TRUE when the handler
\* bails.  o is the response, O the sampling options, random the value of
\* Math.random() in tenths
sampleBail(ps, o, O, random) ==
  LET sampleInterval == Coalesce(Get(O, "samplingInterval"), JN(10))
      maxResponsesToSample == Coalesce(Get(O, "samplingMaxCount"), Infinity)
      sampledCount == Coalesce(Get(GetIn(ps, schemaPath(o)), sampleCountKey),
                               JNull)
  IN  /\ sampledCount.t # "z"
      /\ \/ /\ maxResponsesToSample.t = "n"
            /\ sampledCount.v >= maxResponsesToSample.v
         \/ random > sampleInterval.v

\* schema.$ref.substring('#/components/schemas/'.length) of a reference
\* object, the empty string standing for no reference
referenceId(schema) ==
  IF Has(schema, "$ref")
  THEN substring(schema.v["$ref"].v, Len("#/components/schemas/"))
  ELSE ""

\* the schema inferred from the response body
inferSchema(o) ==
  IF o.contentType = "application/json" THEN jsonStringToTypeboxSchema(o.body)
  ELSE IF o.contentType \in {"text/html", "text/plain"}
  THEN textStringToTypeboxSchema(o.body.v)
  ELSE JUndef

\* a first response that is stored as the whole operation
registerResponseAsOperation(D1, o, statusKnown) ==
  [D1 EXCEPT !.paths =
     PutIn(@, <<o.path, o.method>>,
           JO("responses" :>
                JO(ToString(o.status) :>
                     JO(("description" :> JS(STATUS_CODE_MAP(o.status)))
                        @@ ("content" :>
                              JO(o.contentType :>
                                   JO("schema" :>
                                        JO(("$ref" :> JS(LastRet(D1)))
                                           @@ (sampleCountKey :> JN(1))))))))))]

\* a response seen for the first time: the inferred schema has become a
\* component (D1) and the document points at it, under the known status code
\* or under a new one
registerResponse(D1, o, statusKnown) ==
  LET entry == JO("schema" :> JO(("$ref" :> JS(LastRet(D1)))
                                 @@ (sampleCountKey :> JN(1))))
      statusPath == <<o.path, o.method, "responses", ToString(o.status)>>
  IN  [D1 EXCEPT !.paths =
         IF statusKnown
         THEN PutIn(@, statusPath \o <<"content", o.contentType>>, entry)
         ELSE PutIn(@, statusPath,
                    JO(("description" :> JS(STATUS_CODE_MAP(o.status)))
                       @@ ("content" :> JO(o.contentType :> entry))))]

\* the merge without the test for a stored union
mergeSampledAnew(samplingMethod, typeboxRefSchema, inferredSchema) ==
  IF samplingMethod = "combine"
  THEN flattenIntersections(mergeObjectSchemas(typeboxRefSchema,
                                               inferredSchema))
  ELSE TypeUnion(<<typeboxRefSchema, inferredSchema>>, <<>>)

\* the merge that keeps the latest schema only
mergeSampledLatest(samplingMethod, typeboxRefSchema, inferredSchema) ==
  IF samplingMethod = "combine"
  THEN flattenIntersections(mergeObjectSchemas(typeboxRefSchema,
                                               inferredSchema))
  ELSE inferredSchema

\* samplingMode 'combine' or 'individual' applied to the compiled stored
\* schema and the inferred one
mergeSampled(samplingMethod, typeboxRefSchema, inferredSchema) ==
  IF samplingMethod = "combine"
  THEN flattenIntersections(mergeObjectSchemas(typeboxRefSchema,
                                               inferredSchema))
  ELSE IF Kind(typeboxRefSchema) = "Union"
  THEN Put(typeboxRefSchema, "anyOf",
           JA(Append(typeboxRefSchema.v["anyOf"].v, inferredSchema)))
  ELSE TypeUnion(<<typeboxRefSchema, inferredSchema>>, <<>>)

\* refSchema[refId] = Type.Strict(mergedSchema), an exception of the merge
\* leaving the document as it is
storeMerged(counted, refId, mergedSchema) ==
  IF mergedSchema.t \in {"err", "u"} THEN [D |-> counted, event |-> "threw"]
  ELSE [D |-> [counted EXCEPT
                 !.schemas = (refId :> Strict(mergedSchema)) @@ @],
        event |-> "merged"]

\* the count written without reading the stored one
countSampleAnew(D, o, schema) ==
  [D EXCEPT !.paths = PutIn(@, schemaPath(o) \o <<sampleCountKey>>, JN(1))]

\* x-openapi-sample-count of the response schema plus one, or 1
countSample(D, o, schema) ==
  [D EXCEPT !.paths =
     PutIn(@, schemaPath(o) \o <<sampleCountKey>>,
           IF Has(schema, sampleCountKey)
           THEN JN(schema.v[sampleCountKey].v + 1) ELSE JN(1))]

\* the handler from the read of the sampling mode on
mergeCounted(counted, o, O, inferredSchema, refId, typeboxRefSchema) ==
  IF Coalesce(Get(O, "samplingMode"), JS("individual")).v
       \notin {"combine", "individual"}
  THEN [D |-> counted, event |-> "ignored"]
  ELSE storeMerged(counted, refId,
                   mergeSampled(
                     Coalesce(Get(O, "samplingMode"), JS("individual")).v,
                     typeboxRefSchema, inferredSchema))

\* the handler without the two returns after the count
decideMergeNoReturn(counted, o, O, inferredSchema, refId, typeboxRefSchema) ==
  mergeCounted(counted, o, O, inferredSchema, refId, typeboxRefSchema)

\* the two returns after the count: the schemas are equal, or the stored
\* schema accepts the value
decideMerge(counted, o, O, inferredSchema, refId, typeboxRefSchema) ==
  IF isDeepEqual(typeboxRefSchema, inferredSchema, {"example"})
  THEN [D |-> counted, event |-> "equal"]
  ELSE IF Check(typeboxRefSchema, o.body)
  THEN [D |-> counted, event |-> "accepted"]
  ELSE mergeCounted(counted, o, O, inferredSchema, refId, typeboxRefSchema)

\* the response is known and its schema is a reference: typeboxRefSchema is
\* the compiled stored schema
sampleMerge(D, o, O, inferredSchema, refId, typeboxRefSchema) ==
  IF typeboxRefSchema.t = "err" THEN [D |-> D, event |-> "threw"]
  ELSE decideMerge(countSample(D, o, GetIn(D.paths, schemaPath(o))), o, O,
                   inferredSchema, refId, typeboxRefSchema)

\* the schema of the response is no reference, counted nevertheless
warnInlineCounted(D, o) ==
  [D |-> countSample(D, o, GetIn(D.paths, schemaPath(o))),
   event |-> "inline"]

\* the schema of the response is no reference: console.warn, and nothing
\* else
warnInline(D, o) == [D |-> D, event |-> "inline"]

\* the part of the handler after the body is read, for the inferred schema
\* and the generated name.  `event` names the branch taken.
sampleInferred(D, o, O, inferredSchema, name) ==
  LET pathObject == Get(D.paths, o.path)
      methodObj == Get(Get(pathObject, o.method), "responses")
      statusCodeObj == Get(methodObj, ToString(o.status))
      contentTypeObj == Get(Get(statusCodeObj, "content"), o.contentType)
      refId == referenceId(Get(contentTypeObj, "schema"))
  IN  IF ~(Truthy(pathObject) /\ Truthy(inferredSchema))
      THEN [D |-> D, event |-> "unknown"]
      ELSE IF ~Truthy(methodObj) THEN [D |-> D, event |-> "unknown"]
      ELSE IF ~Truthy(statusCodeObj) \/ ~Has(statusCodeObj, "content")
              \/ contentTypeObj.t = "u"
      THEN IF Truthy(statusCodeObj) /\ ~Has(statusCodeObj, "content")
           THEN [D |-> D, event |-> "contentless"]
           ELSE [D |-> registerResponse(
                         addBodyTypeToSchema(D, name, "fresh", inferredSchema),
                         o, Truthy(statusCodeObj)),
                 event |-> "created"]
      ELSE IF ~Has(Get(contentTypeObj, "schema"), "$ref")
      THEN warnInline(D, o)
      ELSE sampleMerge(D, o, O, inferredSchema, refId,
                       jsonSchemaToTypebox(IF refId \in DOMAIN D.schemas
                                           THEN D.schemas[refId] ELSE JUndef))

\* the part of the handler after the body is read, on the data D of that
\* moment
sampleUpdate(D, o, O) ==
  sampleInferred(D, o, O, inferSchema(o),
                 prettyName(o.path, o.method, o.contentType, o.status))

-----------------------------------------------------------------------------
(* The application: what it registers, what its handlers answer, and the  *)
(* documents and options an instance is constructed with                  *)

Operations == {<<"get", "/a">>, <<"post", "/b/:id">>}

\* the excludePaths and excludeMethod an instance is constructed with
ExclusionOptions ==
  {[excludePaths |-> e[1], excludeMethod |-> e[2],
    validationResponse |-> JUndef] :
     e \in {<<JUndef, JUndef>>,
            <<JS("/foo"), JA(<<>>)>>,
            <<JRe("private"), JUndef>>,
            <<JA(<<JS("/bar")>>), JA(<<JS("get"), JS("options")>>)>>}}

\* the route statements of an application of plain handlers, and the paths
\* a second instance is mounted at
PlainMethods == {"get", "options", "all"}
PlainPaths == {"/foo", "/bar"}
MountPaths == {"/private", "/public"}

\* a second method of a path, answered by a plain handler
PlainOperations == {<<"post", "/a">>}

\* the handlers of a route statement: a plain handler, or an openApi
\* middleware (openApiData, inferred) followed by a plain handler
stub == [openApi |-> FALSE, openApiData |-> JUndef, inferred |-> <<>>]
openApi(inferred) ==
  [openApi |-> TRUE, openApiData |-> EmptyObj, inferred |-> inferred]

\* openApi({summary, tags}) without validators
documented ==
  [openApi |-> TRUE,
   openApiData |-> JO(("summary" :> JS("Account Retrieval"))
                      @@ ("tags" :> JA(<<JS("customerCare")>>))),
   inferred |-> <<>>]

RouteHandlers ==
  {stub,
   documented,
   openApi("query" :> "Q_de"),
   openApi("query" :> "Q_en"),
   openApi("query" :> "Q_en2"),
   openApi("query" :> "Q_two"),
   openApi(("query" :> "Q_de") @@ ("header" :> "Q_de")),
   openApi("json" :> "Q_de")}

PA == JO(("a" :> JS("x")) @@ ("b" :> JS("y")))
PB == JO(("a" :> JS("z")) @@ ("b" :> JS("w")))
PC == JO("a" :> JS("x"))
PD == JO("a" :> JN(1))

\* the responses a handler sends
Responses ==
  {[status |-> 200, contentType |-> "application/json", body |-> PA],
   [status |-> 200, contentType |-> "application/json", body |-> PB],
   [status |-> 200, contentType |-> "application/json", body |-> PC],
   [status |-> 200, contentType |-> "application/json", body |-> PD],
   [status |-> 200, contentType |-> "text/html", body |-> JS("OK")],
   [status |-> 401, contentType |-> "application/json", body |-> PA]}

\* c.text('OK')
PlainResponse == [status |-> 200, contentType |-> "text/html", body |-> JS("OK")]

\* Math.random(), in tenths
RandomTenths == {2, 8}

\* options.responseSampling; samplingInterval is kept in tenths
SamplingOptions ==
  {EmptyObj,
   JO("samplingMode" :> JS("combine")),
   JO(("samplingMode" :> JS("individual")) @@ ("samplingInterval" :> JN(5))
      @@ ("samplingMaxCount" :> JN(2)))}

\* a document read from inSpecPath
SeedSchemas ==
  ("LocationResponse" :>
     JO(("type" :> JS("object"))
        @@ ("properties" :> JO("a" :> JO("type" :> JS("string"))))
        @@ ("required" :> JA(<<JS("a")>>))))
  @@ ("PageResponse" :>
        JO(("type" :> JS("object"))
           @@ ("properties" :>
                 JO("first" :> JO("$ref" :>
                    JS("#/components/schemas/LocationResponse"))))))
  @@ ("ErrorResponse" :>
        JO(("type" :> JS("object"))
           @@ ("description" :> JS("An error"))
           @@ ("properties" :> JO("a" :> JO("type" :> JS("string"))))
           @@ ("required" :> JA(<<JS("a")>>))))

\* a response of the document read: a description and a json schema that
\* is a reference
SeedResponse(description, name) ==
  JO(("description" :> JS(description))
     @@ ("content" :>
           JO("application/json" :>
                JO("schema" :> JO("$ref" :>
                   JS("#/components/schemas/" \o name))))))

\* paths['/a'].get of the document read
SeedGetA ==
  JO(("summary" :> JS("seeded"))
     @@ ("tags" :> JA(<<JS("locations")>>))
     @@ ("responses" :>
           JO(("200" :>
                 JO(("description" :> JS("ok"))
                    @@ ("content" :>
                          JO(("application/json" :>
                                JO("schema" :> JO("$ref" :>
                                   JS("#/components/schemas/LocationResponse"))))
                             @@ ("text/html" :>
                                   JO("schema" :>
                                      JO("type" :> JS("string"))))))))
              @@ ("401" :> JO("description" :> JS("Unauthorized"))))))

\* paths['/b/:id'].post of the document read
SeedPostB ==
  JO(("parameters" :>
        JA(<<JO(("in" :> JS("query")) @@ ("name" :> JS("page"))
                @@ ("schema" :> JO("type" :> JS("string"))))>>))
     @@ ("responses" :>
           JO(("200" :> SeedResponse("ok", "PageResponse"))
              @@ ("401" :> SeedResponse("Unauthorized", "ErrorResponse")))))

SeedPaths ==
  JO(("/a" :> JO("get" :> SeedGetA))
     @@ ("/b/:id" :> JO("post" :> SeedPostB)))

SeedDocuments ==
  {[schemas |-> <<>>, paths |-> EmptyObj],
   [schemas |-> SeedSchemas, paths |-> SeedPaths]}

-----------------------------------------------------------------------------
(* The state machine *)

\* the routes the constructor mounts for the documentation: app.routes of
\* an instance before its first route statement
DocumentationEndpoints ==
  <<[method |-> "GET", path |-> "/swagger"],
    [method |-> "GET", path |-> "/swagger.json"]>>

Doc == [parameters |-> parameters, schemas |-> schemas, paths |-> paths,
        refs |-> open_api_ref, calls |-> <<>>, firstRef |-> firstRef]

Init ==
  /\ parameters = <<>>
  /\ \E seed \in SeedDocuments : schemas = seed.schemas /\ paths = seed.paths
  /\ open_api_ref = [n \in Nodes |-> <<>>]
  /\ routes = {}
  /\ inflight = EmptyBag
  /\ opts \in SamplingOptions
  /\ calls = <<>>
  /\ firstRef = [n \in Nodes |-> <<>>]
  /\ sampled = <<>>
  /\ updated = <<>>
  /\ raced = {}
  /\ last = [kind |-> "init"]
  /\ regs = 0
  /\ obs = 0
  /\ openApiOptions = [excludePaths |-> JUndef, excludeMethod |-> JUndef,
                       validationResponse |-> JUndef]
  /\ subApp = DocumentationEndpoints

\* this.addRoute(method, path, handler) on the data D
addRoute(D, method, path, handler) ==
  IF ~(isValidHttpMethod(method) /\ method # "all") THEN D
  ELSE IF isExcludedRoute(path, method) THEN D
  ELSE addOrAugmentOpenApiRoute(
         D, method, path,
         IF handler.openApi THEN handler.openApiData ELSE JUndef,
         IF handler.openApi THEN handler.inferred ELSE <<>>)

\* handlers.forEach(addRoute); an exception ends the loop
RECURSIVE addRoutes(_, _, _, _)
addRoutes(D, method, path, handlers) ==
  IF handlers = <<>> \/ LastThrew(D) THEN D
  ELSE addRoutes(addRoute(D, method, path, Head(handlers)), method, path,
                 Tail(handlers))

\* app[method](path, ...handlers): the response interception handler comes
\* first, then the openApi middleware if there is one, then the handler
RegisterRoute(method, path, handler) ==
  /\ \E D \in {addRoutes(Doc, method, path,
                           <<stub>>
                           \o (IF handler.openApi THEN <<handler>> ELSE <<>>)
                           \o <<stub>>)} :
         /\ parameters' = D.parameters
         /\ schemas' = D.schemas
         /\ paths' = D.paths
         /\ open_api_ref' = D.refs
         /\ calls' = D.calls
         /\ firstRef' = D.firstRef
  /\ routes' = routes \union {<<method, path>>}
  /\ last' = [kind |-> "register"]
  /\ regs' = regs + 1
  /\ UNCHANGED <<inflight, opts, sampled, updated, raced, obs, openApiOptions,
                 subApp>>

\* path, method, status code and content type of a response
responseKey(o) ==
  [method |-> o.method, path |-> o.path, status |-> o.status,
   contentType |-> o.contentType]

\* a request is answered and the interception handler runs up to the read
\* of the response body
SampleGate(method, path, response, random) ==
  /\ <<method, path>> \in routes
  /\ BagCardinality(inflight) < MaxInflight
  /\ LET o == [method |-> method, path |-> path] @@ response
     IN  /\ inflight' = IF sampleBail(paths, o, opts, random) THEN inflight
                        ELSE inflight (+) SetToBag({o})
         /\ raced' = IF /\ ~sampleBail(paths, o, opts, random)
                        /\ \E p \in BagToSet(inflight) :
                             responseKey(p) = responseKey(o)
                     THEN raced \union {responseKey(o)} ELSE raced
         /\ last' = [kind |-> "gate"]
  /\ calls' = <<>>
  /\ obs' = obs + 1
  /\ UNCHANGED <<parameters, schemas, paths, open_api_ref, routes, opts,
                 firstRef, sampled, updated, regs, openApiOptions,
                 subApp>>

\* the interception handler goes on after the read of the response body.
\* An exception of the handler leaves it, there being no try around its
\* body: the request ends with the error (sent) and not with the response.
SampleUpdate(o) ==
  /\ BagIn(o, inflight)
  /\ inflight' = inflight (-) SetToBag({o})
  /\ \E r \in {sampleUpdate(Doc, o, opts)},
        name \in {prettyName(o.path, o.method, o.contentType, o.status)},
        refId \in {referenceId(GetIn(paths, schemaPath(o)))} :
       /\ parameters' = r.D.parameters
       /\ schemas' = r.D.schemas
       /\ paths' = r.D.paths
       /\ open_api_ref' = r.D.refs
       /\ calls' = r.D.calls
       /\ firstRef' = r.D.firstRef
       /\ sampled' =
            CASE r.event = "created" ->
                   (name :> <<schemas'[name]>>) @@ sampled
              [] r.event = "merged" /\ refId \in DOMAIN sampled ->
                   [sampled EXCEPT ![refId] = Append(@, Strict(inferSchema(o)))]
              [] OTHER -> sampled
       /\ updated' =
            IF r.D.paths = paths /\ r.D.schemas = schemas THEN updated
            ELSE (responseKey(o) :>
                    (IF responseKey(o) \in DOMAIN updated
                     THEN updated[responseKey(o)] + 1 ELSE 1)) @@ updated
       /\ last' = [kind |-> "update", o |-> o, event |-> r.event,
                   sent |-> IF r.event = "threw" THEN "error"
                            ELSE "response"]
  /\ UNCHANGED <<routes, opts, raced, regs, obs, openApiOptions,
                 subApp>>

\* app.routes of the instance without the two documentation endpoints:
\* route() splices them out before the routes are handed on
withoutDocumentationEndpoints(rs) ==
  SelectSeq(rs, LAMBDA r : ~(r.method = "GET"
                             /\ r.path \in {"/swagger.json", "/swagger"}))

\* super.route(path, app): every route of app is added to the clone
\* basePath(path) makes, which has the document and the options of this
\* instance; the handler handed on is no openApi middleware
RECURSIVE composeRoutes(_, _, _)
composeRoutes(D, path, rs) ==
  IF rs = <<>> THEN D
  ELSE composeRoutes(
         addRoute(D, toLowerCase(Head(rs).method),
                  mergePath(mergePath("/", path), Head(rs).path), stub),
         path, Tail(rs))

\* app.route(path, subApp)
Route(path) ==
  /\ \E D \in {composeRoutes(Doc, path,
                               withoutDocumentationEndpoints(subApp))} :
         /\ parameters' = D.parameters
         /\ schemas' = D.schemas
         /\ paths' = D.paths
         /\ open_api_ref' = D.refs
         /\ calls' = D.calls
         /\ firstRef' = D.firstRef
  /\ routes' = routes \union
                 {<<toLowerCase(r.method), mergePath(path, r.path)>> :
                    r \in Seq2Set(withoutDocumentationEndpoints(subApp))}
  /\ subApp' = withoutDocumentationEndpoints(subApp)
                 \o <<DocumentationEndpoints[2], DocumentationEndpoints[1]>>
  /\ last' = [kind |-> "route"]
  /\ regs' = regs + 1
  /\ UNCHANGED <<inflight, opts, sampled, updated, raced, obs, openApiOptions>>

\* subApp[method](path, handler) with a plain handler: the route is kept in
\* subApp.routes; the document it is written to is the one of subApp, which
\* this instance does not read
SubAppRoute(method, path) ==
  /\ subApp' = Append(subApp, [method |-> toUpperCaseAll(method),
                                path |-> mergePath("/", path)])
  /\ last' = [kind |-> "subApp"]
  /\ UNCHANGED <<parameters, schemas, paths, open_api_ref, routes, inflight,
                 opts, calls, firstRef, sampled, updated, raced, regs, obs,
                 openApiOptions>>

\* Routes are registered and requests are answered in any order.
Next ==
  \/ \E op \in Operations, handler \in RouteHandlers :
       /\ regs + obs < MaxSteps
       /\ RegisterRoute(op[1], op[2], handler)
  \/ \E op \in PlainOperations :
       /\ regs + obs < MaxSteps
       /\ RegisterRoute(op[1], op[2], stub)
  \/ \E op \in Operations, response \in Responses, random \in RandomTenths :
       /\ regs + obs < MaxSteps
       /\ SampleGate(op[1], op[2], response, random)
  \/ \E o \in BagToSet(inflight) : SampleUpdate(o)

Spec == Init /\ [][Next]_vars

\* An application of plain handlers that is constructed with exclusions and
\* mounts a second instance
InitExclusion ==
  /\ parameters = <<>>
  /\ \E seed \in SeedDocuments : schemas = seed.schemas /\ paths = seed.paths
  /\ open_api_ref = [n \in Nodes |-> <<>>]
  /\ routes = {}
  /\ inflight = EmptyBag
  /\ opts = EmptyObj
  /\ calls = <<>>
  /\ firstRef = [n \in Nodes |-> <<>>]
  /\ sampled = <<>>
  /\ updated = <<>>
  /\ raced = {}
  /\ last = [kind |-> "init"]
  /\ regs = 0
  /\ obs = 0
  /\ openApiOptions \in ExclusionOptions
  /\ subApp = DocumentationEndpoints

NextExclusion ==
  \/ \E method \in PlainMethods, path \in PlainPaths :
       /\ regs + obs < MaxSteps
       /\ RegisterRoute(method, path, stub)
  \/ \E method \in PlainMethods, path \in PlainPaths :
       /\ Len(subApp) < Len(DocumentationEndpoints) + MaxSubAppRoutes
       /\ SubAppRoute(method, path)
  \/ \E path \in MountPaths :
       /\ regs + obs < MaxSteps
       /\ Route(path)
  \/ \E r \in routes, random \in RandomTenths :
       /\ r[1] # "all"
       /\ regs + obs < MaxSteps
       /\ SampleGate(r[1], r[2], PlainResponse, random)
  \/ \E o \in BagToSet(inflight) : SampleUpdate(o)

SpecExclusion == InitExclusion /\ [][NextExclusion]_vars

\* The registrations of an application, without requests
NextRegistry ==
  \E op \in Operations, handler \in RouteHandlers :
    /\ regs < MaxRegs
    /\ RegisterRoute(op[1], op[2], handler)

SpecRegistry == Init /\ [][NextRegistry]_vars

\* An application of plain handlers and the requests it answers
NextSampler ==
  \/ \E op \in Operations :
       /\ obs = 0
       /\ op \notin routes
       /\ RegisterRoute(op[1], op[2], stub)
  \/ \E op \in Operations, response \in Responses, random \in RandomTenths :
       /\ obs < MaxObs
       /\ SampleGate(op[1], op[2], response, random)
  \/ \E o \in BagToSet(inflight) : SampleUpdate(o)

SpecSampler == Init /\ [][NextSampler]_vars

\* An application whose route paths differ in a slash and an underscore
NameOperations == {<<"get", "/a/b">>, <<"get", "/a_b">>}

NextNames ==
  \/ \E op \in NameOperations :
       /\ obs = 0
       /\ op \notin routes
       /\ RegisterRoute(op[1], op[2], stub)
  \/ \E op \in NameOperations, response \in Responses, random \in RandomTenths :
       /\ obs < MaxObs
       /\ SampleGate(op[1], op[2], response, random)
  \/ \E o \in BagToSet(inflight) : SampleUpdate(o)

SpecNames == Init /\ [][NextNames]_vars

\* The document is written as JSON (saveSpec) and a new instance is
\* constructed from the file (inSpecPath): the components and the paths are
\* what JSON.parse gives of JSON.stringify, the schema objects of the new
\* process carry no annotation and no route is registered yet
SeedFromExport ==
  /\ regs < MaxRegs
  /\ regs' = regs + 1
  /\ parameters' = [k \in DOMAIN parameters |-> Strict(parameters[k])]
  /\ schemas' = [k \in DOMAIN schemas |-> Strict(schemas[k])]
  /\ paths' = Strict(paths)
  /\ open_api_ref' = [n \in Nodes |-> <<>>]
  /\ firstRef' = [n \in Nodes |-> <<>>]
  /\ routes' = {}
  /\ calls' = <<>>
  /\ last' = [kind |-> "seed"]
  /\ UNCHANGED <<inflight, opts, sampled, updated, raced, obs,
                 openApiOptions, subApp>>

\* An application that registers routes, exports its document and is
\* started again from the export
NextRoundTrip ==
  \/ \E op \in Operations, handler \in RouteHandlers :
       /\ regs < MaxRegs
       /\ RegisterRoute(op[1], op[2], handler)
  \/ SeedFromExport

SpecRoundTrip == Init /\ [][NextRoundTrip]_vars

\* An application started from a document whose components.parameters
\* already hold the first names the probing loop tries for lang in query,
\* each with an entry no declared parameter is equal to
OccupiedCounts == {0, ProbeLimit - 1, ProbeLimit}

OccupyingEntry ==
  JO(("in" :> JS("query")) @@ ("name" :> JS("lang"))
     @@ ("schema" :> JO("type" :> JS("boolean")))
     @@ ("required" :> JB(FALSE)))

\* the names the loop tries, in its order: from 0, lang_query and then
\* lang_query0, lang_query1, ...
CandidateName(i) ==
  IF i = 0 THEN "lang_query" ELSE "lang_query" \o ToString(i - 1)

InitProbing ==
  /\ \E n \in OccupiedCounts :
       parameters = [k \in {CandidateName(i) : i \in 0..(n - 1)} |->
                       OccupyingEntry]
  /\ schemas = <<>>
  /\ paths = EmptyObj
  /\ open_api_ref = [n \in Nodes |-> <<>>]
  /\ routes = {}
  /\ inflight = EmptyBag
  /\ opts = EmptyObj
  /\ calls = <<>>
  /\ firstRef = [n \in Nodes |-> <<>>]
  /\ sampled = <<>>
  /\ updated = <<>>
  /\ raced = {}
  /\ last = [kind |-> "init"]
  /\ regs = 0
  /\ obs = 0
  /\ openApiOptions = [excludePaths |-> JUndef, excludeMethod |-> JUndef,
                       validationResponse |-> JUndef]
  /\ subApp = DocumentationEndpoints

NextProbing ==
  \E op \in Operations, handler \in RouteHandlers :
    /\ regs < MaxProbingRegs
    /\ RegisterRoute(op[1], op[2], handler)

SpecProbing == InitProbing /\ [][NextProbing]_vars

-----------------------------------------------------------------------------
(* The openApi middleware: validation of a request *)

\* Value.Default(schema, value): a missing value takes the default the
\* schema declares; the properties of an object are visited
RECURSIVE ValueDefault(_, _)
ValueDefault(schema, value) ==
  IF value.t = "u" /\ Has(schema, "default") THEN Get(schema, "default")
  ELSE IF Kind(schema) = "Object" /\ IsObj(value)
  THEN JO([k \in DOMAIN value.v \union
                   {p \in DOMAIN Get(schema, "properties").v :
                      Has(Get(schema, "properties").v[p], "default")} |->
             IF k \in DOMAIN Get(schema, "properties").v
             THEN ValueDefault(Get(schema, "properties").v[k], Get(value, k))
             ELSE value.v[k]])
  ELSE value

\* Value.Convert(schema, value): a number or a boolean becomes a string
\* where a string is declared; the properties an object has are visited
RECURSIVE ValueConvert(_, _)
ValueConvert(schema, value) ==
  CASE Kind(schema) = "String" /\ value.t = "n" -> JS(ToString(value.v))
    [] Kind(schema) = "String" /\ value.t = "b" ->
         JS(IF value.v THEN "true" ELSE "false")
    [] Kind(schema) = "Object" /\ IsObj(value) ->
         JO([k \in DOMAIN value.v |->
               IF k \in DOMAIN Get(schema, "properties").v
               THEN ValueConvert(Get(schema, "properties").v[k], value.v[k])
               ELSE value.v[k]])
    [] Kind(schema) = "Array" /\ IsArr(value) ->
         JA([i \in 1..Len(value.v) |->
               ValueConvert(Get(schema, "items"), value.v[i])])
    [] OTHER -> value

\* the callback performValidation hands to validator(target, ...): the
\* errors of the target are collected when the converted data fails
validationFailed(schema, data) ==
  ~Check(schema, ValueConvert(schema, ValueDefault(schema, data)))

\* the validation that ends with the first target that fails
RECURSIVE performValidationUntilFailure(_, _, _, _)
performValidationUntilFailure(collectedErrors, targets, inferred, request) ==
  IF targets = <<>> \/ DOMAIN collectedErrors # {} THEN collectedErrors
  ELSE performValidationUntilFailure(
         IF /\ Head(targets) \in DOMAIN inferred
            /\ (Head(targets) = "json" => request.method # "get")
            /\ validationFailed(NodeValue(open_api_ref,
                                          inferred[Head(targets)]),
                                request.data[Head(targets)])
         THEN (Head(targets) :> "errors") @@ collectedErrors
         ELSE collectedErrors,
         Tail(targets), inferred, request)

\* the calls of performValidation for json (unless c.req.method is 'get'),
\* query, param, header, form and cookie; every target is run
RECURSIVE performValidation(_, _, _, _)
performValidation(collectedErrors, targets, inferred, request) ==
  IF targets = <<>> THEN collectedErrors
  ELSE performValidation(
         IF /\ Head(targets) \in DOMAIN inferred
            /\ (Head(targets) = "json" => request.method # "get")
            /\ validationFailed(NodeValue(open_api_ref,
                                          inferred[Head(targets)]),
                                request.data[Head(targets)])
         THEN (Head(targets) :> "errors") @@ collectedErrors
         ELSE collectedErrors,
         Tail(targets), inferred, request)

ValidationTargets == <<"json", "query", "param", "header", "form", "cookie">>

\* the Response a validationCallback returns, and the answer of the handler
CallbackResponse == [status |-> 204, body |-> JO("success" :> JS("maybe"))]
HandlerResponse == [status |-> 200, body |-> JS("OK")]

\* middlewareFunction(c, next): whether next() was called, and the response
middlewareFunction(inferred, validationFunctionOption, request) ==
  LET collectedErrors ==
        performValidation(<<>>, ValidationTargets, inferred, request)
      validationCallback == Get(validationFunctionOption, "validationCallback")
  IN  IF DOMAIN collectedErrors # {}
      THEN [next |-> FALSE,
            response |->
              IF validationCallback = JS("returns a Response")
              THEN CallbackResponse
              ELSE [status |-> Coalesce(Get(validationFunctionOption,
                                            "errorCode"), JN(400)).v,
                    body |-> JO(("success" :> JB(FALSE))
                                @@ ("errors" :>
                                      JO([k \in DOMAIN collectedErrors |->
                                            JS(collectedErrors[k])])))]]
      ELSE [next |-> TRUE, response |-> HandlerResponse]

\* the validationResponse option of the instance
ValidationResponses ==
  {JUndef,
   JO("errorCode" :> JN(403)),
   JO(("errorCode" :> JN(403)) @@ ("validationCallback" :> JS("returns nothing"))),
   JO("validationCallback" :> JS("returns a Response"))}

\* the middlewares of the routes that validate
ValidatingHandlers ==
  {openApi("query" :> "Q_de"),
   openApi(("query" :> "Q_de") @@ ("header" :> "Q_en")),
   openApi("json" :> "Q_two"),
   openApi(("param" :> "Q_de") @@ ("form" :> "Q_de") @@ ("cookie" :> "Q_en")),
   openApi([target \in Seq2Set(ValidationTargets) |-> "Q_de"])}

\* the requests: c.req.method, and what the request carries for each
\* target (query and param alike; header, form and cookie alike)
Requests ==
  LET TargetData == {JO("lang" :> JS("de")), EmptyObj, JO("lang" :> JN(1)),
                     JO("lang" :> JNull)}
      JsonData == {JO("lang" :> JS("de")),
                   JO(("lang" :> JS("fr")) @@ ("code" :> JN(7))
                      @@ ("langs" :> JA(<<JS("fr")>>))),
                   JS("de")}
  IN  {[method |-> method,
        data |-> [target \in Seq2Set(ValidationTargets) |->
                    IF target = "json" THEN json
                    ELSE IF target \in {"query", "param"} THEN first
                    ELSE second]] :
         method \in {"GET", "POST"}, json \in JsonData,
         first \in TargetData, second \in TargetData}

\* An instance with a validationResponse option
InitValidation ==
  /\ parameters = <<>>
  /\ schemas = <<>>
  /\ paths = EmptyObj
  /\ open_api_ref = [n \in Nodes |-> <<>>]
  /\ routes = {}
  /\ inflight = EmptyBag
  /\ opts = EmptyObj
  /\ calls = <<>>
  /\ firstRef = [n \in Nodes |-> <<>>]
  /\ sampled = <<>>
  /\ updated = <<>>
  /\ raced = {}
  /\ last = [kind |-> "init"]
  /\ regs = 0
  /\ obs = 0
  /\ \E validationResponse \in ValidationResponses :
       openApiOptions = [excludePaths |-> JUndef, excludeMethod |-> JUndef,
                         validationResponse |-> validationResponse]
  /\ subApp = DocumentationEndpoints

\* a request reaches the openApi middleware of a route; registerRouteHandler
\* has handed it the validationResponse option of the instance
Validate(handler, request) ==
  /\ obs < MaxRequests
  /\ obs' = obs + 1
  /\ \E result \in {middlewareFunction(handler.inferred,
                                       openApiOptions.validationResponse,
                                       request)} :
       last' = [kind |-> "request", inferred |-> handler.inferred,
                request |-> request, next |-> result.next,
                response |-> result.response]
  /\ UNCHANGED <<parameters, schemas, paths, open_api_ref, routes, inflight,
                 opts, calls, firstRef, sampled, updated, raced, regs,
                 openApiOptions, subApp>>

NextValidation ==
  \E handler \in ValidatingHandlers, request \in Requests :
    Validate(handler, request)

SpecValidation == InitValidation /\ [][NextValidation]_vars

-----------------------------------------------------------------------------
(* The schema algebra applied to schemas of its own *)

\* object schemas: as Type.Object builds them, and as the inference of a
\* response builds them (additionalProperties: false)
AlgebraObjects ==
  {TypeObject("a" :> TypeString(<<>>), <<"a">>, <<>>),
   TypeObject(("a" :> TypeString(<<>>)) @@ ("b" :> TypeNumber(<<>>)),
              <<"a", "b">>, <<>>),
   TypeObject(("a" :> TypeString(<<>>))
              @@ ("b" :> TypeOptional(TypeNumber(<<>>))), <<"a", "b">>, <<>>),
   TypeObject("a" :> TypeOptional(TypeString(<<>>)), <<"a">>, <<>>),
   TypeObject("a" :> TypeIntersect(<<TypeString(<<>>),
                                     TypeString("example" :> JS("x"))>>, <<>>),
              <<"a">>, <<>>),
   TypeObject("a" :> TypeString(<<>>), <<"a">>,
              "additionalProperties" :> JB(FALSE))}

\* the schemas flattenIntersections is applied to: objects, primitives, an
\* array, a literal, and the intersections of two of them
AlgebraSchemas ==
  LET members == AlgebraObjects
                 \union {TypeString(<<>>), TypeString("example" :> JS("x")),
                         TypeNumber(<<>>), TypeArray(TypeString(<<>>), <<>>),
                         TypeLiteral(JS("x"), <<>>)}
  IN  members \union {TypeIntersect(<<x, y>>, <<>>) : x, y \in members}

\* two schemas are at hand
InitAlgebra ==
  /\ parameters = <<>>
  /\ schemas = <<>>
  /\ paths = EmptyObj
  /\ open_api_ref = [n \in Nodes |-> <<>>]
  /\ routes = {}
  /\ inflight = EmptyBag
  /\ opts = EmptyObj
  /\ calls = <<>>
  /\ firstRef = [n \in Nodes |-> <<>>]
  /\ sampled = <<>>
  /\ updated = <<>>
  /\ raced = {}
  /\ \E x \in AlgebraSchemas, y \in AlgebraObjects :
       last = [kind |-> "schemas", x |-> x, y |-> y, before |-> x,
               value |-> x, applied |-> 0]
  /\ regs = 0
  /\ obs = 0
  /\ openApiOptions = [excludePaths |-> JUndef, excludeMethod |-> JUndef,
                       validationResponse |-> JUndef]
  /\ subApp = DocumentationEndpoints

\* flattenIntersections is applied to the schema at hand, which may be the
\* outcome of an earlier application
Flatten ==
  /\ last.kind \in {"schemas", "flatten"}
  /\ last.applied < MaxApplied
  /\ ~IsErr(last.value) /\ last.value.t # "u"
  /\ last' = [last EXCEPT !.kind = "flatten", !.before = last.value,
                          !.value = flattenIntersections(last.value),
                          !.applied = @ + 1]
  /\ UNCHANGED <<parameters, schemas, paths, open_api_ref, routes, inflight,
                 opts, calls, firstRef, sampled, updated, raced, regs, obs,
                 openApiOptions, subApp>>

\* mergeObjectSchemas is applied to the two schemas, both objects
Merge ==
  /\ last.kind = "schemas"
  /\ Kind(last.x) = "Object"
  /\ last' = [last EXCEPT !.kind = "merge",
                          !.value = mergeObjectSchemas(last.x, last.y)]
  /\ UNCHANGED <<parameters, schemas, paths, open_api_ref, routes, inflight,
                 opts, calls, firstRef, sampled, updated, raced, regs, obs,
                 openApiOptions, subApp>>

NextAlgebra == Flatten \/ Merge

SpecAlgebra == InitAlgebra /\ [][NextAlgebra]_vars

-----------------------------------------------------------------------------
(* isDeepEqual applied to values *)

\* The values isDeepEqual is applied to: primitives, objects and arrays,
\* some of them alike but for a key that is ignored or for their order
EqualityValues ==
  {JS("ab"), JS(""), JN(1), JN(2), JB(TRUE), JNull, JUndef,
   EmptyObj,
   JO(("0" :> JS("a")) @@ ("1" :> JS("b"))),
   JO("a" :> JN(1)),
   JO(("a" :> JN(1)) @@ ("example" :> JS("x"))),
   JO(("a" :> JN(1)) @@ ("b" :> JUndef)),
   JO("a" :> JO(("b" :> JA(<<JN(1), JN(2)>>)) @@ ("example" :> JN(1)))),
   JO("a" :> JO("b" :> JA(<<JN(1), JN(2)>>))),
   JO("a" :> JO("b" :> JA(<<JN(2), JN(1)>>))),
   JA(<<>>), JA(<<JN(1)>>), JA(<<JN(1), JN(2)>>), JA(<<JS("a"), JS("b")>>)}

IgnoredKeys == {{}, {"example"}}

\* two values and the keys to ignore are at hand
InitEquality ==
  /\ parameters = <<>>
  /\ schemas = <<>>
  /\ paths = EmptyObj
  /\ open_api_ref = [n \in Nodes |-> <<>>]
  /\ routes = {}
  /\ inflight = EmptyBag
  /\ opts = EmptyObj
  /\ calls = <<>>
  /\ firstRef = [n \in Nodes |-> <<>>]
  /\ sampled = <<>>
  /\ updated = <<>>
  /\ raced = {}
  /\ \E a \in EqualityValues, b \in EqualityValues, ignored \in IgnoredKeys :
       last = [kind |-> "values", obj1 |-> a, obj2 |-> b,
               propsToIgnore |-> ignored, result |-> FALSE]
  /\ regs = 0
  /\ obs = 0
  /\ openApiOptions = [excludePaths |-> JUndef, excludeMethod |-> JUndef,
                       validationResponse |-> JUndef]
  /\ subApp = DocumentationEndpoints

\* isDeepEqual is applied to the two values
Compare ==
  /\ last.kind = "values"
  /\ last' = [last EXCEPT !.kind = "compared",
                          !.result = isDeepEqual(last.obj1, last.obj2,
                                                 last.propsToIgnore)]
  /\ UNCHANGED <<parameters, schemas, paths, open_api_ref, routes, inflight,
                 opts, calls, firstRef, sampled, updated, raced, regs, obs,
                 openApiOptions, subApp>>

NextEquality == Compare

SpecEquality == InitEquality /\ [][NextEquality]_vars

-----------------------------------------------------------------------------
(* The reference store and the references of the document *)

\* the $ref strings found in a value, at any depth
RECURSIVE Refs(_)
Refs(x) ==
  IF IsObj(x)
  THEN (IF Has(x, "$ref") /\ x.v["$ref"].t = "s" THEN {x.v["$ref"].v}
        ELSE {})
       \union UNION {Refs(x.v[k]) : k \in DOMAIN x.v}
  ELSE IF IsArr(x) THEN UNION {Refs(x.v[i]) : i \in 1..Len(x.v)}
  ELSE {}

Resolves(ref) ==
  \/ \E n \in DOMAIN parameters : ref = "#/components/parameters/" \o n
  \/ \E n \in DOMAIN schemas : ref = "#/components/schemas/" \o n

\* C1: after any registrations and sampled responses, every $ref stored in
\* paths names an entry of components.parameters or components.schemas.
C1_EveryRefResolves == \A ref \in Refs(paths) : Resolves(ref)

IsParameterCall(c) == c.fn = "addParameterToSchema"
IsBodyCall(c) == c.fn = "addBodyTypeToSchema"

\* C2: a call of addParameterToSchema with a node that was registered for
\* the same location before returns the reference the first call returned,
\* and leaves components.parameters as it was.
C2_SameNodeSameReference ==
  \A i \in 1..Len(calls) :
    (IsParameterCall(calls[i]) /\ calls[i].seen)
      => /\ ~calls[i].threw
         /\ calls[i].ret = firstRef[calls[i].schema][calls[i].ctx]
         /\ calls[i].post = calls[i].pre

C2_Witness ==
  \E i \in 1..Len(calls) :
    /\ IsParameterCall(calls[i]) /\ calls[i].seen
    /\ calls[i].ret = "#/components/parameters/lang_query0"
    /\ Cardinality(DOMAIN parameters) = 2

\* C3: a call of addBodyTypeToSchema with a node that was registered as a
\* body before returns the reference the first call returned, whatever the
\* name passed.
C3_BodyRegistrationIdempotent ==
  \A i \in 1..Len(calls) :
    (IsBodyCall(calls[i]) /\ calls[i].seen)
      => calls[i].ret = firstRef[calls[i].schema]["body"]

\* the stored entries of the parameter name and location of a call
Family(c) ==
  {k \in DOMAIN c.pre :
     /\ StrictEq(Get(c.pre[k], "name"), JS(c.name))
     /\ StrictEq(Get(c.pre[k], "in"), JS(c.ctx))}

\* the component names of a parameter name and location, in order
ComponentName(n, l, j) ==
  IF j = 0 THEN n \o "_" \o l ELSE n \o "_" \o l \o ToString(j - 1)

EqualEntries(c, fam) ==
  {k \in fam : isDeepEqual(c.parameter, c.pre[k], {"open_api_ref"})}

NameOrder(c, fam, eq) ==
  /\ fam = {ComponentName(c.name, c.ctx, j) : j \in 0..(Cardinality(fam) - 1)}
  /\ IF eq # {}
     THEN /\ \E k \in eq : c.ret = "#/components/parameters/" \o k
          /\ c.post = c.pre
     ELSE /\ c.ret = "#/components/parameters/"
                       \o ComponentName(c.name, c.ctx, Cardinality(fam))
          /\ DOMAIN c.post
               = DOMAIN c.pre
                   \union {ComponentName(c.name, c.ctx, Cardinality(fam))}
          /\ ComponentName(c.name, c.ctx, Cardinality(fam)) \notin DOMAIN c.pre
          /\ \A k \in DOMAIN c.pre : c.post[k] = c.pre[k]

NameOrderOfFamily(c, fam) == NameOrder(c, fam, EqualEntries(c, fam))

\* C4: a parameter n in l registered from a node without a reference for l
\* gets n_l when no parameter n in l is stored, the reference of a stored
\* entry equal to it (ignoring open_api_ref) when there is one, adding
\* nothing, and else the next unused name of n_l0, n_l1, ...
C4_NamesInOrder ==
  \A i \in 1..Len(calls) :
    (IsParameterCall(calls[i]) /\ ~calls[i].fast /\ ~calls[i].threw)
      => NameOrderOfFamily(calls[i], Family(calls[i]))

C4_Witness ==
  \E i \in 1..Len(calls) :
    /\ IsParameterCall(calls[i]) /\ ~calls[i].fast /\ ~calls[i].seen
    /\ calls[i].ret = "#/components/parameters/lang_query0"
    /\ calls[i].post = calls[i].pre
    /\ "lang_query0" \in DOMAIN calls[i].pre

\* C5: the references one route registration gets for the properties of its
\* schemas, one per property and location, designate pairwise distinct
\* entries of components.parameters, each in the location of the property.
C5_OneEntryPerPropertyAndLocation ==
  \A i \in 1..Len(calls) :
    (IsParameterCall(calls[i]) /\ ~calls[i].threw)
      => /\ \E k \in DOMAIN parameters :
              /\ calls[i].ret = "#/components/parameters/" \o k
              /\ StrictEq(Get(parameters[k], "in"), JS(calls[i].ctx))
         /\ \A j \in 1..Len(calls) :
              (j # i /\ IsParameterCall(calls[j]))
                => calls[j].ret # calls[i].ret

\* whether a value has the key at any depth
RECURSIVE ContainsKey(_, _)
ContainsKey(x, key) ==
  IF IsObj(x)
  THEN key \in DOMAIN x.v \/ \E k \in DOMAIN x.v : ContainsKey(x.v[k], key)
  ELSE IF IsArr(x) THEN \E i \in 1..Len(x.v) : ContainsKey(x.v[i], key)
  ELSE FALSE

\* C6: no schema stored in components.parameters contains open_api_ref.
C6_NoAnnotationStored ==
  \A k \in DOMAIN parameters :
    ~ContainsKey(Get(parameters[k], "schema"), "open_api_ref")

\* C7: an entry of a node's open_api_ref, once set, keeps its value in every
\* later state.
C7_ReferenceMapStable ==
  [][\A n \in Nodes : \A c \in DOMAIN open_api_ref[n] :
       /\ c \in DOMAIN open_api_ref'[n]
       /\ open_api_ref'[n][c] = open_api_ref[n][c]]_vars

C7_Witness ==
  \E i \in 1..Len(calls) :
    /\ IsBodyCall(calls[i]) /\ calls[i].fast
    /\ calls[i].preRefs["body"] # "#/components/schema/" \o calls[i].name
    /\ open_api_ref[calls[i].schema]["body"] = calls[i].preRefs["body"]

-----------------------------------------------------------------------------
(* The response sampler *)

contentPath(o) ==
  <<o.path, o.method, "responses", ToString(o.status), "content",
    o.contentType>>

\* the response of the document for (statusCode, contentType), if any
ResponseEntry(ps, o) == GetIn(ps, contentPath(o))

\* the inferred schema is a component under the generated name and the
\* response refers to it with a sample count of 1
RegisteredFirst(S, ps, o, name, inferredSchema) ==
  /\ name \in DOMAIN S
  /\ S[name] = Strict(inferredSchema)
  /\ GetIn(ps, schemaPath(o))
       = JO(("$ref" :> JS("#/components/schemas/" \o name))
            @@ (sampleCountKey :> JN(1)))

\* C8: when the handler goes on with a response whose body a schema is
\* inferred from, and the document has no response for its status code and
\* content type, the inferred schema is registered under the generated name
\* and the response refers to it with x-openapi-sample-count 1.
C8_FirstResponseRegistered ==
  [][(/\ last'.kind = "update"
      /\ ResponseEntry(paths, last'.o).t = "u"
      /\ Truthy(inferSchema(last'.o)))
       => RegisteredFirst(schemas', paths', last'.o,
                          prettyName(last'.o.path, last'.o.method,
                                     last'.o.contentType, last'.o.status),
                          inferSchema(last'.o))]_vars

\* the stored schema a response refers to, compiled
CompiledStored(S, refId) ==
  jsonSchemaToTypebox(IF refId \in DOMAIN S THEN S[refId] ELSE JUndef)

\* the compiled stored schema equals the inferred one or accepts the value
AcceptsOnArrival(typeboxRefSchema, inferredSchema, value) ==
  /\ typeboxRefSchema.t # "err"
  /\ \/ isDeepEqual(typeboxRefSchema, inferredSchema, {"example"})
     \/ Check(typeboxRefSchema, value)

SampleCount(schema) ==
  IF Has(schema, sampleCountKey) THEN schema.v[sampleCountKey].v ELSE 0

\* C9: when the handler goes on with a response whose schema in the
\* document is a reference, and the stored schema equals the inferred one
\* (ignoring example) or accepts the value, components.schemas and
\* components.parameters stay as they are and the document changes in
\* x-openapi-sample-count only, which grows by one.
C9_AcceptedOnlyCounts ==
  [][(/\ last'.kind = "update"
      /\ Has(GetIn(paths, schemaPath(last'.o)), "$ref")
      /\ AcceptsOnArrival(
           CompiledStored(schemas,
                          referenceId(GetIn(paths, schemaPath(last'.o)))),
           inferSchema(last'.o), last'.o.body))
       => /\ schemas' = schemas
          /\ parameters' = parameters
          /\ paths' = PutIn(paths, schemaPath(last'.o) \o <<sampleCountKey>>,
                            JN(SampleCount(GetIn(paths, schemaPath(last'.o)))
                               + 1))]_vars

\* the same shape was seen twice: one schema, counted twice
C9_Witness ==
  /\ last.kind = "update"
  /\ DOMAIN schemas = DOMAIN sampled
  /\ Cardinality(DOMAIN schemas) = 1
  /\ \A name \in DOMAIN schemas : Len(sampled[name]) = 1
  /\ SampleCount(GetIn(paths, schemaPath(last.o))) = 2

\* the members of a stored schema: those of its anyOf, or the schema
Members(schema) ==
  IF Has(schema, "anyOf") THEN schema.v["anyOf"].v ELSE <<schema>>

IndividualMode ==
  Coalesce(Get(opts, "samplingMode"), JS("individual")).v = "individual"

\* C10: in individual mode the schema of a response the sampler registered
\* consists of the schema inferred from the first payload and the schemas
\* inferred from the payloads it did not accept, in the order they were
\* seen: alone, or as the members of one anyOf under the same name.
C10_UnionInObservationOrder ==
  IndividualMode
    => \A name \in DOMAIN sampled :
         /\ name \in DOMAIN schemas
         /\ Members(schemas[name]) = sampled[name]
         /\ Len(sampled[name]) > 1 => Has(schemas[name], "anyOf")

C10_Witness ==
  /\ IndividualMode
  /\ \E name \in DOMAIN sampled :
       /\ Len(sampled[name]) = 3
       /\ Has(schemas[name], "anyOf")
       /\ schemas[name].v["anyOf"].v = sampled[name]

\* the bodies the handlers send
PayloadBodies == {r.body : r \in Responses}

\* Value.Check of a value against the component of a name, compiled
Accepts(S, name, value) ==
  /\ name \in DOMAIN S
  /\ \E typeboxRefSchema \in {CompiledStored(S, name)} :
       typeboxRefSchema.t # "err" /\ Check(typeboxRefSchema, value)

\* the step counted the response into x-openapi-sample-count
Counted(ps, psNext, o) ==
  SampleCount(GetIn(psNext, schemaPath(o)))
    > SampleCount(GetIn(ps, schemaPath(o)))

CombineMode ==
  Coalesce(Get(opts, "samplingMode"), JS("individual")).v = "combine"

\* the property names and the required names of a stored object schema
PropertySet(schema) ==
  IF IsObj(Get(schema, "properties")) THEN DOMAIN schema.v["properties"].v
  ELSE {}
RequiredNames(schema) ==
  IF IsArr(Get(schema, "required"))
  THEN {schema.v["required"].v[i].v : i \in 1..Len(schema.v["required"].v)}
  ELSE {}

\* one object schema, not a union or an intersection
SingleObject(schema) ==
  /\ StrictEq(Get(schema, "type"), JS("object"))
  /\ ~Has(schema, "anyOf")
  /\ ~Has(schema, "allOf")

\* the stored schema of a response after a JSON object was counted: that of
\* the object alone when the response is new, and else the stored one with
\* the keys of the object added and the required names it lacks removed
KeysCombined(S, SNext, isNew, name, keys) ==
  /\ name \in DOMAIN SNext
  /\ SingleObject(SNext[name])
  /\ IF isNew
     THEN /\ PropertySet(SNext[name]) = keys
          /\ RequiredNames(SNext[name]) = keys
     ELSE /\ name \in DOMAIN S
          /\ PropertySet(SNext[name]) = PropertySet(S[name]) \union keys
          /\ RequiredNames(SNext[name]) = RequiredNames(S[name]) \intersect keys

\* the handler ran to its end and the response was registered, counted, or
\* merged
Completed(event) == event \in {"created", "equal", "accepted", "merged"}

\* the response of o refers to a component that carries keys other than the
\* structural ones (a description, say): a schema of the document read, for
\* the sampler writes none
Annotated(S, ps, o) ==
  /\ ResponseEntry(ps, o).t # "u"
  /\ referenceId(GetIn(ps, schemaPath(o))) \in DOMAIN S
  /\ DOMAIN parseSchemaOptions(S[referenceId(GetIn(ps, schemaPath(o)))]) # {}

IntervalTenths == IF Has(opts, "samplingInterval")
                  THEN opts.v["samplingInterval"].v ELSE 10
MaxCountReached(count) ==
  Has(opts, "samplingMaxCount") /\ count >= opts.v["samplingMaxCount"].v

\* a sample count exists for the response, and it has reached
\* samplingMaxCount or the random value is above samplingInterval
SkipCondition(ps, o, random) ==
  /\ Has(GetIn(ps, schemaPath(o)), sampleCountKey)
  /\ \/ MaxCountReached(SampleCount(GetIn(ps, schemaPath(o))))
     \/ random > IntervalTenths

\* C13: the gate skips a response exactly when a sample count exists for its
\* path, method, status code and content type and the count has reached
\* samplingMaxCount or the random value is above samplingInterval, and the
\* step of the gate leaves the document as it is, the sample count included;
\* a response that went on and finds a sample count raises it by one.
C13_GateSkipsExactly ==
  [][/\ \A op \in Operations, response \in Responses, random \in RandomTenths :
          SampleGate(op[1], op[2], response, random)
            => /\ (inflight' = inflight)
                    <=> SkipCondition(
                          paths,
                          [method |-> op[1], path |-> op[2]] @@ response,
                          random)
               /\ paths' = paths
               /\ schemas' = schemas
               /\ parameters' = parameters
     /\ (/\ last'.kind = "update"
         /\ Has(GetIn(paths, schemaPath(last'.o)), sampleCountKey))
          => SampleCount(GetIn(paths', schemaPath(last'.o)))
               = SampleCount(GetIn(paths, schemaPath(last'.o))) + 1]_vars

\* samplingMaxCount is reached and a further response was skipped
C13_Witness ==
  /\ last.kind = "gate"
  /\ inflight = EmptyBag
  /\ obs = 3
  /\ \E o \in {[method |-> "get", path |-> "/a", status |-> 200,
                contentType |-> "application/json"]} :
       MaxCountReached(SampleCount(GetIn(paths, schemaPath(o))))

\* the responses of the document a handler can answer with
ResponseKeys ==
  {[method |-> op[1], path |-> op[2], status |-> r.status,
    contentType |-> r.contentType] : op \in Operations, r \in Responses}

\* C14: with a samplingMaxCount of at least 1, no x-openapi-sample-count of
\* the document is above samplingMaxCount, in any state, whatever the number
\* of responses between the gate and the update.
C14_CountWithinMax ==
  (Has(opts, "samplingMaxCount") /\ opts.v["samplingMaxCount"].v >= 1)
    => \A o \in ResponseKeys :
         SampleCount(GetIn(paths, schemaPath(o)))
           <= opts.v["samplingMaxCount"].v

\* the sample count of a response is below the number of handlers that went
\* on and changed the document for it
Undercount ==
  \E key \in DOMAIN updated :
    SampleCount(GetIn(paths, schemaPath(key))) < updated[key]

\* a schema the sampler registered or merged is not in the stored schema:
\* not among its members in individual mode, or one of its properties not
\* among its properties in combine mode
DroppedMerge ==
  \E name \in DOMAIN sampled : \E i \in 1..Len(sampled[name]) :
    \/ name \notin DOMAIN schemas
    \/ IF CombineMode
       THEN ~(PropertySet(sampled[name][i]) \subseteq PropertySet(schemas[name]))
       ELSE \A j \in 1..Len(Members(schemas[name])) :
              Members(schemas[name])[j] # sampled[name][i]

LostUpdate == Undercount \/ DroppedMerge

\* no handler is between the gate and the update for the response
Settled(key) == \A o \in BagToSet(inflight) : responseKey(o) # key

C16_FailureCaught ==
  [][(last'.kind = "update" /\ last'.event = "threw")
       => /\ last'.sent = "response"
          /\ paths' = paths
          /\ schemas' = schemas]_vars

\* C17: a step of the handler that ends with the error of compiling the
\* stored schema or of flattening the merged schema leaves the document as
\* it was: components.schemas, the responses and x-openapi-sample-count.
C17_ErrorLeavesDocument ==
  [][(last'.kind = "update" /\ last'.event = "threw")
       => /\ schemas' = schemas
          /\ parameters' = parameters
          /\ paths' = paths
          /\ SampleCount(GetIn(paths', schemaPath(last'.o)))
               = SampleCount(GetIn(paths, schemaPath(last'.o)))]_vars

\* the response of the document has a schema that is no reference
InlineSchema(ps, o) ==
  /\ ResponseEntry(ps, o).t # "u"
  /\ IsObj(Get(ResponseEntry(ps, o), "schema"))
  /\ ~Has(Get(ResponseEntry(ps, o), "schema"), "$ref")

\* C18: when the schema of the response in the document is inline and not a
\* reference, the handler that went on leaves the responses, that schema,
\* components.schemas and components.parameters as they are, adds no
\* x-openapi-sample-count, and the caller receives the response.
C18_InlineSchemaUntouched ==
  [][(last'.kind = "update" /\ InlineSchema(paths, last'.o))
       => /\ paths' = paths
          /\ schemas' = schemas
          /\ parameters' = parameters
          /\ ~Has(GetIn(paths', schemaPath(last'.o)), sampleCountKey)
          /\ last'.sent = "response"]_vars

\* a text/html response was sampled against the inline schema of the seeded
\* document
C18_Witness ==
  /\ last.kind = "update"
  /\ last.event = "inline"
  /\ InlineSchema(paths, last.o)
  /\ last.o.contentType = "text/html"
  /\ paths = SeedPaths

-----------------------------------------------------------------------------
(* Route registration *)

\* the operation of the document for a path and a method
Operation(ps, op) == Get(Get(ps, op[2]), op[1])

\* the parameters and the request body of the operation
RequestSide(ps, op) ==
  <<Get(Operation(ps, op), "parameters"), Get(Operation(ps, op), "requestBody")>>

HasRequestSide(ps, op) ==
  \/ /\ IsArr(Get(Operation(ps, op), "parameters"))
     /\ Len(Get(Operation(ps, op), "parameters").v) > 0
  \/ IsObj(Get(Operation(ps, op), "requestBody"))

\* C19, as stated: once an operation has parameters or a request body, a
\* later route statement for its path and method, with a plain handler or
\* with an openApi middleware, leaves its parameters and request body as
\* they are.
C19_FirstRegistrationWins ==
  [][\A op \in Operations, handler \in RouteHandlers :
       (RegisterRoute(op[1], op[2], handler) /\ HasRequestSide(paths, op))
         => RequestSide(paths', op) = RequestSide(paths, op)]_vars

\* C19, amended: once an operation has parameters or a request body, a
\* later route statement for its path and method with a plain handler
\* leaves its parameters and request body as they are.
C19_PlainHandlerKeepsRequestSide ==
  [][\A op \in Operations :
       (RegisterRoute(op[1], op[2], stub) /\ HasRequestSide(paths, op))
         => RequestSide(paths', op) = RequestSide(paths, op)]_vars

\* get /a was registered with a query validator and then with a plain
\* handler, which called nothing of the reference store
C19_Witness ==
  /\ last.kind = "register"
  /\ regs = 2
  /\ routes = {<<"get", "/a">>}
  /\ calls = <<>>
  /\ RequestSide(paths, <<"get", "/a">>)
       = <<JA(<<JO("$ref" :> JS("#/components/parameters/lang_query"))>>),
           JUndef>>

\* a reference object
RefObject(ref) == JO("$ref" :> JS(ref))

\* the references the reference store returned for the parameters of the
\* validators, in the order of the calls
RECURSIVE ParameterRefs(_)
ParameterRefs(cs) ==
  IF cs = <<>> THEN <<>>
  ELSE (IF IsParameterCall(Head(cs)) THEN <<RefObject(Head(cs).ret)>>
        ELSE <<>>) \o ParameterRefs(Tail(cs))

\* the reference the reference store returned for the json validator
BodyRefs(cs) == SelectSeq(cs, IsBodyCall)

\* parameters and requestBody as the validators of a middleware give them:
\* the references of the properties of its query, cookie, header and param
\* validators, the parameters read from the path when it has no param
\* validator, and the reference of its json validator
DerivedRequestSide(path, inferred, cs) ==
  <<JA(ParameterRefs(cs)
       \o (IF "param" \in DOMAIN inferred THEN <<>>
           ELSE inferredPathParameters(path))),
    IF "json" \in DOMAIN inferred
    THEN JO("content" :> JO("application/json" :>
              JO("schema" :> RefObject(BodyRefs(cs)[1].ret))))
    ELSE JUndef>>

\* C20: a route statement with an openApi middleware leaves the operation
\* with the parameters and the requestBody derived from the validators of
\* the middleware, whatever the operation had from the document read or from
\* earlier statements; a route statement with a plain handler leaves an
\* operation that exists as it is.
C20_ValidatorsAreSourceOfTruth ==
  [][\A op \in Operations, handler \in RouteHandlers :
       RegisterRoute(op[1], op[2], handler)
         => IF handler.openApi
            THEN RequestSide(paths', op)
                   = DerivedRequestSide(op[2], handler.inferred, calls')
            ELSE Operation(paths, op).t # "u"
                   => Operation(paths', op) = Operation(paths, op)]_vars

\* the seeded post /b/:id, whose parameter was page, after a statement with
\* a json validator: a request body, and the parameter of the path only
C20_Witness ==
  /\ last.kind = "register"
  /\ regs = 1
  /\ StrictEq(Get(Operation(paths, <<"post", "/b/:id">>), "responses"),
              Get(SeedPostB, "responses"))
  /\ IsObj(Get(Operation(paths, <<"post", "/b/:id">>), "requestBody"))
  /\ Get(Operation(paths, <<"post", "/b/:id">>), "parameters")
       = JA(inferredPathParameters("/b/:id"))

\* the responses mapping of the operation
ResponsesOf(ps, op) == Get(Operation(ps, op), "responses")

\* C21: a route statement for an operation that exists, with a plain handler
\* or with an openApi middleware, leaves the responses mapping of the
\* operation equal to the one before the statement.
C21_ResponsesKept ==
  [][\A op \in Operations, handler \in RouteHandlers :
       (last'.kind = "register" /\ Operation(paths, op).t # "u")
         => \/ ResponsesOf(paths', op) = ResponsesOf(paths, op)
            \/ ~RegisterRoute(op[1], op[2], handler)]_vars

\* get /a, which no document read declared, has a response the sampler
\* recorded, and a statement with an openApi middleware came after it
C21_Witness ==
  /\ last.kind = "register"
  /\ calls # <<>>
  /\ DOMAIN sampled # {}
  /\ IsObj(Get(ResponsesOf(paths, <<"get", "/a">>), "200"))
  /\ "LocationResponse" \notin DOMAIN schemas
  /\ IsArr(Get(Operation(paths, <<"get", "/a">>), "parameters"))
  /\ Len(Get(Operation(paths, <<"get", "/a">>), "parameters").v) > 0

\* the documentation fields a route definition may supply
DocumentationFields == {"summary", "description", "tags"}

\* the value of a documentation field after a statement with a definition:
\* the supplied value, or the value of the existing operation
SuppliedOrKept(definition, existing, field) ==
  IF Get(definition, field).t # "u" THEN Get(definition, field)
  ELSE Get(existing, field)

\* C22: a route statement with an openApi middleware for an operation that
\* exists leaves summary, description and tags with the value the definition
\* supplies, or with the value of the existing operation where it supplies
\* none, and leaves the responses of the existing operation.
C22_DocumentationKeptOrSupplied ==
  [][\A op \in Operations, handler \in RouteHandlers :
       (last'.kind = "register" /\ handler.openApi
        /\ Operation(paths, op).t # "u")
         => \/ /\ \A field \in DocumentationFields :
                    Get(Operation(paths', op), field)
                      = SuppliedOrKept(handler.openApiData,
                                       Operation(paths, op), field)
               /\ ResponsesOf(paths', op) = ResponsesOf(paths, op)
            \/ ~RegisterRoute(op[1], op[2], handler)]_vars

\* the keys of an object that have a value
DefinedKeys(object) ==
  IF IsObj(object) THEN {k \in DOMAIN object.v : object.v[k].t # "u"} ELSE {}

\* the status codes of an operation's responses, and the pairs of a status
\* code and a content type
ResponseEntries(operation) ==
  LET responses == Get(operation, "responses")
  IN  {<<status>> : status \in DefinedKeys(responses)}
      \union UNION {{<<status, contentType>> :
                       contentType \in DefinedKeys(
                         Get(Get(responses, status), "content"))} :
                    status \in DefinedKeys(responses)}

\* every key of the paths, every method of a path and every response entry
\* of an operation of ps is one of qs
PathsWithin(ps, qs) ==
  \A path \in DefinedKeys(ps) :
    /\ path \in DefinedKeys(qs)
    /\ \A method \in DefinedKeys(Get(ps, path)) :
         /\ method \in DefinedKeys(Get(qs, path))
         /\ ResponseEntries(Get(Get(ps, path), method))
              \subseteq ResponseEntries(Get(Get(qs, path), method))

\* C23: no route statement and no sampled response takes a name out of
\* components.schemas or components.parameters, a path out of paths, a
\* method out of a path, or a status code or content type out of the
\* responses of an operation.
C23_DocumentGrows ==
  [][/\ DOMAIN schemas \subseteq DOMAIN schemas'
     /\ DOMAIN parameters \subseteq DOMAIN parameters'
     /\ PathsWithin(paths, paths')]_vars

\* the document read has grown by a parameter, by a method of /a, and by a
\* schema and a content type the sampler recorded for post /b/:id
C23_Witness ==
  /\ last.kind = "update"
  /\ DOMAIN SeedSchemas \subseteq DOMAIN schemas
  /\ DOMAIN schemas # DOMAIN SeedSchemas
  /\ DOMAIN parameters # {}
  /\ PathsWithin(SeedPaths, paths)
  /\ <<"200", "text/html">>
       \in ResponseEntries(Operation(paths, <<"post", "/b/:id">>))
  /\ DefinedKeys(Get(paths, "/a")) = {"get", "post"}

-----------------------------------------------------------------------------
(* Exclusion of routes *)

\* the values an option lists: those of an array, the value itself, none
Listed(option) ==
  IF IsArr(option) THEN Seq2Set(option.v)
  ELSE IF option.t = "u" THEN {} ELSE {option}

\* the path equals a string of excludePaths or has a match of one of its
\* regular expressions, or the method is one of excludeMethod
ExcludedByOptions(method, path) ==
  \/ JS(method) \in Listed(openApiOptions.excludeMethod)
  \/ \E e \in Listed(openApiOptions.excludePaths) :
       IF e.t = "re" THEN RegExpTest(e, path) ELSE e = JS(path)

\* the paths of the routes of the instance, mounted ones with their merged
\* path, that the options do not exclude
IncludedRoutePaths ==
  {r[2] : r \in {q \in routes : ~ExcludedByOptions(q[1], q[2])}}

\* C24, as stated: the keys of paths are the paths of the routes that were
\* registered or mounted and that the options of the instance do not
\* exclude.
C24_PathsAreIncludedRoutes ==
  DefinedKeys(paths) = IncludedRoutePaths

\* the keys of the paths of the document read
SeedPathKeys ==
  IF "LocationResponse" \in DOMAIN schemas THEN DefinedKeys(SeedPaths) ELSE {}

\* C24, amended: the keys of paths are the keys of the paths of the document
\* read, together with the paths of the routes with one of the methods get,
\* post, put, delete, options and patch that were registered or mounted and
\* that the options of the instance do not exclude; the documentation
\* endpoints of a mounted instance are not among them.
C24_PathsAreSeedAndIncludedRoutes ==
  DefinedKeys(paths) =
    SeedPathKeys
    \union {r[2] : r \in {q \in routes : /\ q[1] \in METHODS
                                         /\ ~ExcludedByOptions(q[1], q[2])}}

\* an instance that excludes /private/ has mounted a second instance at
\* /private and at /public, and only /public/foo is in its document
C24_Witness ==
  /\ last.kind = "route"
  /\ openApiOptions.excludePaths = JRe("private")
  /\ <<"get", "/private/foo">> \in routes
  /\ <<"get", "/public/foo">> \in routes
  /\ DefinedKeys(paths) = {"/public/foo"}

\* C25: an operation of the method options is in the document only when
\* excludeMethod was given as an empty array; with no excludeMethod given
\* there is none.
C25_OptionsExcludedByDefault ==
  \A path \in DefinedKeys(paths) :
    "options" \in DefinedKeys(Get(paths, path))
      => openApiOptions.excludeMethod = JA(<<>>)

-----------------------------------------------------------------------------
(* Validation of requests *)

\* the declared targets of the request answered last that do not accept
\* what the request carries for them
FailingTargets ==
  {target \in DOMAIN last.inferred :
     ~Check(NodeValue(open_api_ref, last.inferred[target]),
            ValueConvert(NodeValue(open_api_ref, last.inferred[target]),
                         last.request.data[target]))}

\* the status validationResponse.errorCode gives, 400 when it gives none
ErrorCode ==
  IF Has(openApiOptions.validationResponse, "errorCode")
  THEN Get(openApiOptions.validationResponse, "errorCode").v ELSE 400

-----------------------------------------------------------------------------
(* The schema algebra *)

\* C27: for an intersection that flattenIntersections takes without an
\* error, applying it to its own outcome gives a schema structurally equal
\* to that outcome.
C27_FlattenIdempotent ==
  (/\ last.kind = "flatten"
   /\ last.applied = 2
   /\ Kind(last.x) = "Intersect")
    => /\ ~IsErr(last.value)
       /\ isDeepEqual(last.value, last.before, {})

\* C28: a name is required in the outcome of mergeObjectSchemas([a, b]) only
\* if it is required in a and in b; an operand without a required list has
\* no required name.
C28_RequiredWithinBoth ==
  last.kind = "merge"
    => RequiredSet(last.value)
         \subseteq (RequiredSet(last.x) \intersect RequiredSet(last.y))

\* a is required in both operands and stays required; b is required in the
\* first operand only and is not
C28_Witness ==
  /\ last.kind = "merge"
  /\ RequiredSet(last.x) = {"a", "b"}
  /\ RequiredSet(last.y) = {"a"}
  /\ "b" \in DOMAIN Get(last.y, "properties").v
  /\ RequiredSet(last.value) = {"a"}

-----------------------------------------------------------------------------
(* Schemas of the document read *)

\* the name of the schema the response of o refers to
StoredName(ps, o) == referenceId(GetIn(ps, schemaPath(o)))

\* the response of o refers to a schema of the document read that is as it
\* was read: an object whose declared properties compile
SeededObject(ps, S, o) ==
  /\ StoredName(ps, o) \in DOMAIN SeedSchemas
  /\ StoredName(ps, o) \in DOMAIN S
  /\ S[StoredName(ps, o)] = SeedSchemas[StoredName(ps, o)]
  /\ IsObj(Get(S[StoredName(ps, o)], "properties"))
  /\ ~IsErr(CompiledStored(S, StoredName(ps, o)))

\* the payload of o is an object with a property the schema does not declare
CarriesUndeclared(ps, S, o) ==
  /\ o.contentType = "application/json"
  /\ IsObj(o.body)
  /\ \E k \in DOMAIN o.body.v :
       k \notin DOMAIN Get(S[StoredName(ps, o)], "properties").v

\* the schema is a union whose last member declares every property of the
\* payload
UnionDeclaring(schema, body) ==
  /\ IsArr(Get(schema, "anyOf"))
  /\ Len(Get(schema, "anyOf").v) > 1
  /\ DOMAIN body.v \subseteq
       DOMAIN Get(Get(schema, "anyOf").v[Len(Get(schema, "anyOf").v)],
                  "properties").v

\* C29: in individual mode, when the response refers to an object schema of
\* the document read, with or without a description, and the payload has a
\* property the schema does not declare, the compiled schema does not accept
\* the payload and the update leaves the schema as a union whose last member
\* declares the property.
C29_SeededObjectRejectsUndeclared ==
  [][(/\ last'.kind = "update"
      /\ IndividualMode
      /\ SeededObject(paths, schemas, last'.o)
      /\ CarriesUndeclared(paths, schemas, last'.o))
       => /\ ~Check(CompiledStored(schemas, StoredName(paths, last'.o)),
                    last'.o.body)
          /\ UnionDeclaring(schemas'[StoredName(paths, last'.o)],
                            last'.o.body)]_vars

-----------------------------------------------------------------------------
(* The parameter a reference designates *)

\* C30: the reference addParameterToSchema returns for a parameter with a
\* name and a location designates an entry of components.parameters with
\* that name and that location, also when one property schema object stands
\* under two property names of a location.
C30_ReferenceDesignatesNameAndLocation ==
  \A i \in 1..Len(calls) :
    (IsParameterCall(calls[i]) /\ ~calls[i].threw)
      => \E k \in DOMAIN parameters :
           /\ calls[i].ret = "#/components/parameters/" \o k
           /\ StrictEq(Get(parameters[k], "name"), JS(calls[i].name))
           /\ StrictEq(Get(parameters[k], "in"), JS(calls[i].ctx))

-----------------------------------------------------------------------------
(* The reach of an observation *)

\* the operation without its responses
WithoutResponses(ps, op) ==
  IF IsObj(Operation(ps, op)) THEN Del(Operation(ps, op), "responses")
  ELSE Operation(ps, op)

\* C31: a step in which the interception handler goes on with a sampled
\* response leaves components.parameters as they are, leaves every other
\* path of the document as it is, and on the path of the response leaves
\* every other method as it is and the operation of the response as it is
\* but for its responses: the parameters and the requestBody of every
\* operation and the responses of every other operation are unchanged.
C31_ObservationConfined ==
  [][last'.kind = "update"
       => /\ parameters' = parameters
          /\ \A path \in DefinedKeys(paths) \union DefinedKeys(paths') :
               IF path # last'.o.path
               THEN Get(paths', path) = Get(paths, path)
               ELSE \A method \in DefinedKeys(Get(paths, path))
                                    \union DefinedKeys(Get(paths', path)) :
                      IF method # last'.o.method
                      THEN Operation(paths', <<method, path>>)
                             = Operation(paths, <<method, path>>)
                      ELSE WithoutResponses(paths', <<method, path>>)
                             = WithoutResponses(paths, <<method, path>>)]_vars

\* a first response was registered for an operation that has parameters,
\* in a document with parameter components and a second operation
C31_Witness ==
  /\ last.kind = "update"
  /\ last.event = "created"
  /\ HasRequestSide(paths, <<last.o.method, last.o.path>>)
  /\ DOMAIN parameters # {}
  /\ \E op \in Operations :
       /\ op # <<last.o.method, last.o.path>>
       /\ Operation(paths, op).t # "u"

-----------------------------------------------------------------------------
(* The names of the sampled schemas *)

\* C32: the first observation of a response (path, method, status code,
\* content type) stores its schema under a name of its own: the step that
\* registers it leaves every schema component the document had as it was.
C32_FirstObservationKeepsSchemas ==
  [][(last'.kind = "update" /\ last'.event = "created")
       => \A name \in DOMAIN schemas : schemas'[name] = schemas[name]]_vars

-----------------------------------------------------------------------------
(* The schemas of request bodies *)

\* C33: no schema of components.schemas contains open_api_ref, at the top
\* or nested, whatever the order in which routes are registered with
\* schema objects that a parameter declaration and a json body share.
C33_NoAnnotationInSchemas ==
  \A name \in DOMAIN schemas : ~ContainsKey(schemas[name], "open_api_ref")

-----------------------------------------------------------------------------
(* Payloads against the combined schema *)

\* C34: in combine mode every JSON object sampled for a response (the
\* handler ran to its end) satisfies Check against the schema stored for
\* that response from then on: the step that counts the object leaves a
\* stored schema that accepts it, and no step makes a stored schema reject
\* an object it accepted.
C34_CombinedSchemaAcceptsSampled ==
  [][CombineMode
       => /\ (/\ last'.kind = "update"
              /\ Completed(last'.event)
              /\ IsObj(last'.o.body)
              /\ Counted(paths, paths', last'.o))
               => Accepts(schemas',
                          referenceId(GetIn(paths', schemaPath(last'.o))),
                          last'.o.body)
          /\ \A name \in DOMAIN schemas : \A p \in PayloadBodies :
               Accepts(schemas, name, p) => Accepts(schemas', name, p)]_vars

-----------------------------------------------------------------------------
(* The document exported and read again *)

\* the schema objects as declared, before any registration
Unannotated == [n \in Nodes |-> <<>>]

\* components.parameters has the JSON of the entry that is stored for the
\* parameter of a task
HasStoredEntry(P, task) ==
  \E k \in DOMAIN P :
    P[k] = Strict(parameterCopy(parameterObject(Unannotated, task),
                                NodeValue(Unannotated, task.schema)))

\* every parameter the validators declare has its stored entry
AllStored(P, validationSchema) ==
  \E tasks \in {allParameterTasks(Unannotated, validationSchema, 1)} :
    /\ tasks # <<>>
    /\ \A i \in 1..Len(tasks) : HasStoredEntry(P, tasks[i])

\* C35: a route registered with validators whose parameters all have their
\* entry in components.parameters, as the document exported by an earlier
\* run and read again has them, reuses these entries: the registration
\* leaves the key set of components.parameters as it is.
C35_RoundTripKeepsParameterKeys ==
  [][\A op \in Operations, handler \in RouteHandlers :
       (/\ last'.kind = "register"
        /\ DOMAIN parameters' # DOMAIN parameters
        /\ AllStored(parameters, handler.inferred))
         => ~RegisterRoute(op[1], op[2], handler)]_vars

-----------------------------------------------------------------------------
(* The members flattenIntersections keeps *)

\* the members of the outcome: those of the intersection, or the schema
\* that is left
KeptMembers(value) ==
  IF Kind(value) = "Intersect" THEN value.v["allOf"].v ELSE <<value>>

FlattenedKinds == {"Object", "Array", "String", "Number", "Boolean", "Null"}

\* C36: flattenIntersections applied to an intersection raises an error when
\* a member is not an object, array, string, number, boolean or null schema;
\* otherwise every member of the outcome is the flattened form of a member
\* of the intersection, no two members of the outcome are deep-equal with
\* `example` ignored, and when all members are deep-equal to the first the
\* outcome is that one member and not an intersection.
C36_KeptMembersFlattened ==
  (/\ last.kind = "flatten"
   /\ last.applied = 1
   /\ Kind(last.x) = "Intersect")
    => \E allOf \in {last.x.v["allOf"].v}, kept \in {KeptMembers(last.value)} :
         /\ (\E i \in 1..Len(allOf) : Kind(allOf[i]) \notin FlattenedKinds)
              => IsErr(last.value)
         /\ ~IsErr(last.value)
              => /\ \A i \in 1..Len(kept) : \E j \in 1..Len(allOf) :
                      kept[i] = flattenIntersections(allOf[j])
                 /\ \A i, j \in 1..Len(kept) :
                      i # j => ~isDeepEqual(kept[i], kept[j], {"example"})
                 /\ (\A j \in 1..Len(allOf) :
                       isDeepEqual(allOf[1], allOf[j], {"example"}))
                      => Kind(last.value) # "Intersect"

-----------------------------------------------------------------------------
(* The end of the probing loop *)

\* the loop stops at iteration j for the call: the name it tries there is
\* free or has an entry equal to the parameter
StopsAt(c, j) ==
  \E name \in {IF j = 0 THEN c.name \o "_" \o c.ctx
               ELSE c.name \o "_" \o c.ctx \o ToString(j - 1)} :
    \/ name \notin DOMAIN c.pre
    \/ isDeepEqual(c.parameter, c.pre[name], {"open_api_ref"})

\* C37: a call of addParameterToSchema that reaches the probing loop
\* returns a reference to an entry of components.parameters when one of
\* the ProbeLimit names it tries is free or has an equal entry; when all of
\* them have entries that differ from the parameter it throws, ends the
\* registration, leaves components.parameters as they were and does not
\* write the reference map of the schema object.
C37_ProbingEndsWithinBound ==
  \A i \in 1..Len(calls) :
    (IsParameterCall(calls[i]) /\ ~calls[i].fast)
      => IF \E j \in 0..(ProbeLimit - 1) : StopsAt(calls[i], j)
         THEN /\ ~calls[i].threw
              /\ \E name \in DOMAIN calls[i].post :
                   calls[i].ret = "#/components/parameters/" \o name
         ELSE /\ calls[i].threw
              /\ i = Len(calls)
              /\ calls[i].post = calls[i].pre
              /\ parameters = calls[i].pre
              /\ open_api_ref[calls[i].schema] = calls[i].preRefs

\* the loop was left without a name: every name it tried was taken by a
\* different entry
C37_Witness ==
  /\ Len(calls) > 0
  /\ IsParameterCall(calls[Len(calls)])
  /\ calls[Len(calls)].threw
  /\ Cardinality(DOMAIN parameters) = ProbeLimit

-----------------------------------------------------------------------------
(* Deep equality *)

\* a and b are equal as trees once the ignored keys are removed at every
\* level: of one kind, with the same value, the same elements in order, or
\* the same keys with equal values
RECURSIVE TreeEqual(_, _, _)
TreeEqual(a, b, ignored) ==
  IF a.t # b.t THEN FALSE
  ELSE IF a.t = "o"
  THEN /\ ObjectKeys(a) \ ignored = ObjectKeys(b) \ ignored
       /\ \A k \in ObjectKeys(a) \ ignored : TreeEqual(a.v[k], b.v[k], ignored)
  ELSE IF a.t = "a"
  THEN /\ Len(a.v) = Len(b.v)
       /\ \A i \in 1..Len(a.v) : TreeEqual(a.v[i], b.v[i], ignored)
  ELSE a.v = b.v

\* C38: isDeepEqual(a, b, ignored) is true exactly when a and b are equal
\* as trees with the ignored keys removed at every level (values of
\* different kinds are never equal), and it gives the same answer for
\* (b, a).
C38_DeepEqualIsTreeEquality ==
  last.kind = "compared"
    => /\ last.result = TreeEqual(last.obj1, last.obj2, last.propsToIgnore)
       /\ last.result = isDeepEqual(last.obj2, last.obj1, last.propsToIgnore)

====
